---- MODULE Spec2Model ----
(***************************************************************************)
(* Model of the analytical core of the environmental risk platform:        *)
(*   backend/services/ml_pipeline.py  (AnomalyDetector, RiskScorer)        *)
(*   backend/services/data_fusion.py  (DataFusionService)                  *)
(*                                                                         *)
(* Python values are represented as follows.                               *)
(*   float        exact rational <<n, d>> with d > 0, in lowest terms      *)
(*   None         <<"None">>                                               *)
(*   dict         function from the keys that are present to their values  *)
(*   list         sequence                                                 *)
(*   exception    <<"raise", name, "">> in place of the returned value     *)
(* Where one slot holds either None or a container (an Optional argument,  *)
(* a result that may be an exception) the container is wrapped as          *)
(* <<"dict", f>> or <<"list", s>>, so that every value met there is a      *)
(* tuple and the three shapes differ in length.                            *)
(* Floating point is modelled by exact rational arithmetic; round(x, 1)    *)
(* is the documented round-half-to-even on the decimal value.              *)
(***************************************************************************)
EXTENDS Integers, Sequences, FiniteSets, TLC

VARIABLES
    pc,        \* "call" while the call is pending, "done" once it has returned
    op,        \* name of the call
    args,      \* arguments of the call
    ret,       \* what the call returned (or raised)
    fitted,    \* AnomalyDetector.fitted
    scaler,    \* AnomalyDetector.scaler: the training it was last fitted on
    forest,    \* AnomalyDetector.model: the training it was last fitted on
    lastFit,   \* history: number of samples given to the most recent completed fit
    services,  \* the DataFusionService instances: for each its attributes
    calls      \* the calls that run concurrently: for each thread its call's
               \* name, arguments, position and local variables

vars == <<pc, op, args, ret, fitted, scaler, forest, lastFit, services, calls>>

----------------------------------------------------------------------------
(* Exact rational arithmetic standing in for Python floats.                *)

None == <<"None">>

Raise(name) == <<"raise", name, "">>

IsRaise(v) == Len(v) = 3

Dict(f) == <<"dict", f>>

List(s) == <<"list", s>>

\* the dict or list inside a wrapped value
Of(v) == v[2]

Abs(i) == IF i < 0 THEN -i ELSE i

RECURSIVE GCD(_, _)
GCD(a, b) == IF b = 0 THEN a ELSE GCD(b, a % b)

Rat(n, d) ==
    LET s == IF d < 0 THEN -1 ELSE 1
        g == GCD(Abs(n), Abs(d))
    IN  <<(s * n) \div g, (s * d) \div g>>

R(i) == <<i, 1>>

RAdd(x, y) == Rat(x[1] * y[2] + y[1] * x[2], x[2] * y[2])

RSub(x, y) == Rat(x[1] * y[2] - y[1] * x[2], x[2] * y[2])

RMul(x, y) == Rat(x[1] * y[1], x[2] * y[2])

RDiv(x, y) == Rat(x[1] * y[2], x[2] * y[1])

RLt(x, y) == x[1] * y[2] < y[1] * x[2]

RLe(x, y) == x[1] * y[2] <= y[1] * x[2]

\* Python's min(a, b) and max(a, b): the first argument wins a tie.
RMin(x, y) == IF RLt(y, x) THEN y ELSE x

RMax(x, y) == IF RLt(x, y) THEN y ELSE x

----------------------------------------------------------------------------
(* Python helpers.                                                         *)

\* dict.get(key, default)
Get(d, k, default) == IF k \in DOMAIN d THEN d[k] ELSE default

EmptyDict == [k \in {} |-> None]

\* Mutant of Round1: round(x * 10), the division by 10 forgotten.
Round1Tenths(x) ==
    LET n   == x[1] * 10
        d   == x[2]
        fl  == n \div d
        rem == n - fl * d
        up  == \/ 2 * rem > d
               \/ 2 * rem = d /\ fl % 2 = 1
    IN  R(IF up THEN fl + 1 ELSE fl)

\* round(x, 1): the closest multiple of 1/10, a tie going to the even one.
Round1(x) ==
    LET n   == x[1] * 10
        d   == x[2]
        fl  == n \div d
        rem == n - fl * d
        up  == \/ 2 * rem > d
               \/ 2 * rem = d /\ fl % 2 = 1
    IN  Rat(IF up THEN fl + 1 ELSE fl, 10)

----------------------------------------------------------------------------
(* RiskScorer                                                              *)

\* WHO Air Quality Guidelines (2021), RiskScorer.WHO_THRESHOLDS
WHO_THRESHOLDS ==
    [pm25_annual |-> R(15), pm25_24h |-> R(45),
     pm10_annual |-> R(45), pm10_24h |-> R(45),
     no2_annual  |-> R(25), no2_24h  |-> R(200),
     so2_24h     |-> R(40), o3_8h    |-> R(100)]

\* f"{pollutant}_24h"
Key24h(pollutant) ==
    CASE pollutant = "pm25" -> "pm25_24h"
      [] pollutant = "pm10" -> "pm10_24h"
      [] pollutant = "no2"  -> "no2_24h"
      [] pollutant = "so2"  -> "so2_24h"
      [] pollutant = "o3"   -> "o3_24h"

\* value / threshold if threshold > 0 else 0
Exceedance(value, threshold) ==
    IF RLt(R(0), threshold) THEN RDiv(value, threshold) ELSE R(0)

\* One of the three blocks "if p in air and air[p].get('value') is not None".
ExposureStep(air, pollutant, max_exceedance) ==
    IF pollutant \in DOMAIN air /\ Get(air[pollutant], "value", None) # None
    THEN RMax(max_exceedance,
              Exceedance(air[pollutant]["value"],
                         WHO_THRESHOLDS[Key24h(pollutant)]))
    ELSE max_exceedance

\* The pollutants _calculate_exposure_score looks at, in its order.
ExposurePollutants == <<"pm25", "no2", "so2">>

RECURSIVE ExposureAir(_, _, _)
ExposureAir(air, i, max_exceedance) ==
    IF i > Len(ExposurePollutants) THEN max_exceedance
    ELSE ExposureAir(air, i + 1,
                     ExposureStep(air, ExposurePollutants[i], max_exceedance))

\* exposure_score = min(100, max_exceedance * 50)
ExposureFromExceedance(max_exceedance) ==
    RMin(R(100), RMul(max_exceedance, R(50)))

_calculate_exposure_score(metrics) ==
    LET air    == Get(metrics, "air", EmptyDict)
        maxAir == ExposureAir(air, 1, R(0))
        water  == Get(metrics, "water", EmptyDict)
    IN  IF "quality_score" \in DOMAIN water
        THEN IF water["quality_score"] = None
             THEN Raise("TypeError")          \* 100 - None
             ELSE ExposureFromExceedance(
                      RMax(maxAir,
                           RDiv(RSub(R(100), water["quality_score"]), R(100))))
        ELSE ExposureFromExceedance(maxAir)

\* Mutant of DayExposure: "value >= threshold" in place of "value > threshold".
RECURSIVE DayExposureGe(_, _)
DayExposureGe(items, i) ==
    IF i > Len(items) THEN "low"
    ELSE LET pollutant == items[i][1]
             data      == items[i][2]
         IN  IF "value" \in DOMAIN data
                /\ Key24h(pollutant) \in DOMAIN WHO_THRESHOLDS
             THEN IF data["value"] = None THEN "raise"
                  ELSE IF RLe(WHO_THRESHOLDS[Key24h(pollutant)], data["value"])
                       THEN "high"
                       ELSE DayExposureGe(items, i + 1)
             ELSE DayExposureGe(items, i + 1)

\* The inner loop over air.items() of one day: "high" when a pollutant
\* exceeds its threshold (break), "low" when the loop runs out, a raise when
\* a None value is compared with a threshold.
RECURSIVE DayExposure(_, _)
DayExposure(items, i) ==
    IF i > Len(items) THEN "low"
    ELSE LET pollutant == items[i][1]
             data      == items[i][2]
         IN  IF "value" \in DOMAIN data
                /\ Key24h(pollutant) \in DOMAIN WHO_THRESHOLDS
             THEN IF data["value"] = None THEN "raise"
                  ELSE IF RLt(WHO_THRESHOLDS[Key24h(pollutant)], data["value"])
                       THEN "high"
                       ELSE DayExposure(items, i + 1)
             ELSE DayExposure(items, i + 1)

\* The outer loop over the examined days; -1 stands for the raise.
RECURSIVE CountHighDays(_, _, _)
CountHighDays(days, i, high_exposure_days) ==
    IF i > Len(days) THEN high_exposure_days
    ELSE LET e == DayExposure(Get(days[i], "air", <<>>), 1)
         IN  IF e = "raise" THEN -1
             ELSE CountHighDays(days, i + 1,
                                high_exposure_days + (IF e = "high" THEN 1 ELSE 0))

\* len(historical_trend) < 7
MinHistory == 7

\* min(30, len(historical_trend))
MaxExaminedDays == 30

_calculate_duration_score(historical_trend) ==
    IF historical_trend = None \/ Len(Of(historical_trend)) = 0
       \/ Len(Of(historical_trend)) < MinHistory
    THEN R(50)
    ELSE LET n          == Len(Of(historical_trend))
             total_days == IF n < MaxExaminedDays THEN n ELSE MaxExaminedDays
             recent     == SubSeq(Of(historical_trend), n - total_days + 1, n)
             high       == CountHighDays(recent, 1, 0)
         IN  IF high = -1 THEN Raise("TypeError")     \* None > threshold
             ELSE RMul(Rat(high, total_days), R(100))

\* Mutant of LowCoverage: "coverage <= 0.5".
LowCoverageLe(coverage) == RLe(coverage, Rat(1, 2))

\* the test "coverage < 0.5"
LowCoverage(coverage) == RLt(coverage, Rat(1, 2))

\* Mutant of PenaltySum: the age part is capped at 30, as in the confidence.
PenaltySumCap30(data_quality) ==
    LET age_hours == Get(data_quality, "age_hours", R(0))
        agePen    == IF RLt(R(24), age_hours)
                     THEN RMin(R(30), RMul(RDiv(RSub(age_hours, R(24)), R(24)), R(20)))
                     ELSE R(0)
        coverage  == Get(data_quality, "coverage", R(1))
        covPen    == IF LowCoverage(coverage)
                     THEN RMul(RSub(R(1), coverage), R(30))
                     ELSE R(0)
    IN  RAdd(agePen, covPen)

\* penalty, before "return min(100, penalty)"
PenaltySum(data_quality) ==
    LET age_hours == Get(data_quality, "age_hours", R(0))
        agePen    == IF RLt(R(24), age_hours)
                     THEN RMin(R(20), RMul(RDiv(RSub(age_hours, R(24)), R(24)), R(20)))
                     ELSE R(0)
        coverage  == Get(data_quality, "coverage", R(1))
        covPen    == IF LowCoverage(coverage)
                     THEN RMul(RSub(R(1), coverage), R(30))
                     ELSE R(0)
    IN  RAdd(agePen, covPen)

_calculate_uncertainty_penalty(data_quality) == RMin(R(100), PenaltySum(data_quality))

\* max(0, min(100, x))
Clamp(x) == RMax(R(0), RMin(R(100), x))

\* Mutant of AgeReduction: the cap of the uncertainty penalty (20) in place
\* of the cap of the confidence (30).
AgeReductionCap20(age_hours) ==
    RMin(R(20), RMul(RDiv(RSub(age_hours, R(24)), R(24)), R(30)))

\* min(30, (age_hours - 24) / 24 * 30)
AgeReduction(age_hours) ==
    RMin(R(30), RMul(RDiv(RSub(age_hours, R(24)), R(24)), R(30)))

\* Mutant of FewAirMetrics: "len(air) <= 2".
FewAirMetricsLe(air) == Cardinality(DOMAIN air) <= 2

\* the test "not air or len(air) < 2"
FewAirMetrics(air) == Cardinality(DOMAIN air) = 0 \/ Cardinality(DOMAIN air) < 2

_calculate_confidence(data_quality, metrics) ==
    LET age_hours == Get(data_quality, "age_hours", R(0))
        c1        == IF RLt(R(24), age_hours)
                     THEN RSub(R(100), AgeReduction(age_hours))
                     ELSE R(100)
        coverage  == Get(data_quality, "coverage", R(1))
        c2        == RMul(c1, coverage)
        air       == Get(metrics, "air", EmptyDict)
        c3        == IF FewAirMetrics(air)
                     THEN RMul(c2, Rat(7, 10))
                     ELSE c2
    IN  Clamp(c3)

\* Mutant of WeightedCombination: the weights of duration and uncertainty swapped.
WeightedCombinationSwapped(exposure_score, duration_score, uncertainty_penalty) ==
    RAdd(RAdd(RMul(Rat(6, 10), exposure_score), RMul(Rat(1, 10), duration_score)),
         RMul(Rat(3, 10), uncertainty_penalty))

\* 0.6 * exposure_score + 0.3 * duration_score + 0.1 * uncertainty_penalty
WeightedCombination(exposure_score, duration_score, uncertainty_penalty) ==
    RAdd(RAdd(RMul(Rat(6, 10), exposure_score), RMul(Rat(3, 10), duration_score)),
         RMul(Rat(1, 10), uncertainty_penalty))

\* the if / elif / else on the clamped, not yet rounded, risk_score
Verdict(risk_score) ==
    IF RLe(R(67), risk_score) THEN "UNSAFE"
    ELSE IF RLe(R(34), risk_score) THEN "MODERATE"
    ELSE "SAFE"

DefaultDataQuality == [coverage |-> R(1), age_hours |-> R(0)]

calculate_risk_score(metrics, historical_trend, data_quality) ==
    LET dq                  == IF data_quality = None THEN DefaultDataQuality
                               ELSE Of(data_quality)
        exposure_score      == _calculate_exposure_score(metrics)
        duration_score      == _calculate_duration_score(historical_trend)
        uncertainty_penalty == _calculate_uncertainty_penalty(dq)
        risk_score          == Clamp(WeightedCombination(exposure_score, duration_score,
                                                         uncertainty_penalty))
        confidence          == _calculate_confidence(dq, metrics)
    IN  IF IsRaise(exposure_score) THEN exposure_score
        ELSE IF IsRaise(duration_score) THEN duration_score
        ELSE Dict(
             [risk_score          |-> Round1(risk_score),
              exposure_score      |-> Round1(exposure_score),
              duration_score      |-> Round1(duration_score),
              uncertainty_penalty |-> Round1(uncertainty_penalty),
              verdict             |-> Verdict(risk_score),
              confidence          |-> Round1(confidence),
              model_version       |-> "1.0.0"])

----------------------------------------------------------------------------
(* PlumeTracer                                                             *)

\* Mutant of SourceEstimate: the coordinates are exchanged.
SourceEstimateExchanged(detection_lat, detection_lng) ==
    [lat |-> detection_lng, lng |-> detection_lat,
     confidence_radius_km |-> R(10), probability |-> Rat(1, 2)]

\* the "source_estimate" of the returned dict
SourceEstimate(detection_lat, detection_lng) ==
    [lat |-> detection_lat, lng |-> detection_lng,
     confidence_radius_km |-> R(10), probability |-> Rat(1, 2)]

\* trace_plume: pollutant, intensity and wind_data are not read.
trace_plume(detection_lat, detection_lng, pollutant, intensity, wind_data, hours_back) ==
    Dict([source_estimate  |-> SourceEstimate(detection_lat, detection_lng),
          trajectory_model |-> "Lagrangian backward (simplified)",
          note             |-> "Full plume tracing requires ERA5 wind data integration",
          hours_traced     |-> hours_back])

----------------------------------------------------------------------------
(* _assess_data_quality, the same function in both routes                  *)

\* Mutant of IsValidSource: every attempted source counts as valid.
IsValidSourceAlways(s) == TRUE

\* "error" not in s
IsValidSource(s) == "error" \notin DOMAIN s

\* The timestamp of the raw data is <<>> when the key is absent, else one
\* value: an ISO string that fromisoformat parses, standing for an hour of
\* the clock, or a string it rejects.  utcnow is the hour of the clock when
\* the function runs.  Without the key the default is the clock itself, and
\* a rejected string is caught by the bare except.
AgeHours(timestamp, utcnow) ==
    IF timestamp = <<>> THEN R(0)
    ELSE IF timestamp[1].parses THEN R(utcnow - timestamp[1].hour)
    ELSE R(0)

_assess_data_quality(raw_data, utcnow) ==
    LET sources       == Get(raw_data, "sources", EmptyDict)
        total_sources == Cardinality(DOMAIN sources)
        valid_sources == Cardinality({k \in DOMAIN sources : IsValidSource(sources[k])})
        coverage      == IF total_sources > 0 THEN Rat(valid_sources, total_sources)
                         ELSE R(0)
        timestamp     == IF "timestamp" \in DOMAIN raw_data
                         THEN <<raw_data.timestamp>> ELSE <<>>
    IN  Dict([coverage      |-> coverage,
              age_hours     |-> AgeHours(timestamp, utcnow),
              valid_sources |-> valid_sources,
              total_sources |-> total_sources])

----------------------------------------------------------------------------
(* The technical breakdown of the analysis route                           *)
(* (backend/api/routes/analysis.py).  The measurement timestamp, read from *)
(* the clock, is left out.                                                 *)

\* Mutant of ExceedanceFactor: the guard reads the threshold with the default
\* of the division, data.get("threshold", 1) > 0.
ExceedanceFactorDefault1(data) ==
    LET guard == Get(data, "threshold", R(1))
    IN  IF guard = None THEN Raise("TypeError")
        ELSE IF RLt(R(0), guard)
        THEN IF data["value"] = None THEN Raise("TypeError")
             ELSE RDiv(data["value"], Get(data, "threshold", R(1)))
        ELSE None

\* data["value"] / data.get("threshold", 1)
\*     if data.get("threshold", 0) > 0 else None
\* A threshold of None raises in the comparison and a value of None in the
\* division.
ExceedanceFactor(data) ==
    LET guard == Get(data, "threshold", R(0))
    IN  IF guard = None THEN Raise("TypeError")
        ELSE IF RLt(R(0), guard)
        THEN IF data["value"] = None THEN Raise("TypeError")
             ELSE RDiv(data["value"], Get(data, "threshold", R(1)))
        ELSE None

\* "OpenAQ" in source and "Sentinel" in source, over the labels the fusion
\* writes and the default "Unknown"
ContainsOpenAQ(source) == source \in {"OpenAQ", "Fused (OpenAQ + Sentinel-5P)"}

ContainsSentinel(source) == source \in {"Sentinel-5P", "Fused (OpenAQ + Sentinel-5P)"}

\* technical_data of one pollutant
TechnicalData(pollutant, data) ==
    LET source == Get(data, "source", "Unknown")
        base   ==
            [raw_value         |-> data["value"],
             unit              |-> Get(data, "unit", "ug/m3"),
             threshold         |-> [source   |-> "WHO",
                                    value    |-> Get(data, "threshold", R(0)),
                                    standard |-> "WHO Air Quality Guidelines 2021"],
             exceedance_factor |-> ExceedanceFactor(data),
             data_source       |-> source,
             spatial_coverage  |-> IF ContainsOpenAQ(source) THEN "point" ELSE "grid",
             uncertainty       |-> None]
    IN  IF ContainsSentinel(source)
        THEN [k \in DOMAIN base \cup {"spatial_resolution_km"} |->
                 IF k = "spatial_resolution_km"
                 THEN (IF pollutant = "no2" THEN Rat(7, 2) ELSE R(7))
                 ELSE base[k]]
        ELSE base

_generate_technical_breakdown(metrics, raw_data, risk_result) ==
    LET air    == Get(metrics, "air", EmptyDict)
        shown  == {p \in DOMAIN air : "value" \in DOMAIN air[p]}
        raised == {p \in shown : IsRaise(ExceedanceFactor(air[p]))}
    IN  IF raised # {} THEN Raise("TypeError")
        ELSE Dict(
             [air_quality |-> [p \in shown |-> TechnicalData(p, air[p])],
              risk_model  |->
                 [exposure_score      |-> Get(risk_result, "exposure_score", R(0)),
                  duration_score      |-> Get(risk_result, "duration_score", R(0)),
                  uncertainty_penalty |-> Get(risk_result, "uncertainty_penalty", R(0)),
                  final_risk_score    |-> Get(risk_result, "risk_score", R(0)),
                  model_version       |-> Get(risk_result, "model_version", "1.0.0"),
                  feature_importance  |->
                     [pm25 |-> Rat(35, 100), no2 |-> Rat(25, 100), so2 |-> Rat(15, 100),
                      temporal_trend |-> Rat(15, 100), water_quality |-> Rat(10, 100)]]])

----------------------------------------------------------------------------
(* AnomalyDetector                                                         *)
(* A DataFrame is described by its number of rows and the set of its       *)
(* columns; a fitted StandardScaler by the training frame it was fitted on *)
(* (<<>> while it has never been fitted); a fitted IsolationForest by that *)
(* frame and by the trees it grew, which are described by what they answer *)
(* for a sample: a score and a decision.  The forest is seeded             *)
(* (random_state=42), so its answers are a function of the fitted model    *)
(* and of the scaled sample; every sample has the same readings here, so   *)
(* one answer for each fitted model describes it.                          *)

\* len(historical_data) < 10
MinSamples == 10

\* the columns _extract_features looks for
PollutantColumns == {"pm25", "pm10", "no2", "so2", "o3"}

\* _extract_features: the number of columns of the feature matrix
NFeatures(columns) ==
    Cardinality(columns \cap PollutantColumns)
        + (IF "timestamp" \in columns THEN 2 ELSE 0)

\* Mutant of fit: the early return leaves the fitted flag as it was.
fitNoReset(self, rows, columns, trees) ==
    IF rows < MinSamples
    THEN [fitted |-> self.fitted, scaler |-> self.scaler, model |-> self.model,
          ret |-> None]
    ELSE IF NFeatures(columns) = 0
    THEN [fitted |-> self.fitted, scaler |-> self.scaler, model |-> self.model,
          ret |-> Raise("ValueError")]
    ELSE [fitted |-> TRUE,
          scaler |-> [rows |-> rows, columns |-> columns],
          model  |-> [rows |-> rows, columns |-> columns, trees |-> trees],
          ret    |-> None]

\* fit: the detector after the call and what the call returned, trees being
\* what IsolationForest.fit grows.  With no feature column
\* StandardScaler.fit_transform raises before anything is set.
fit(self, rows, columns, trees) ==
    IF rows < MinSamples
    THEN [fitted |-> FALSE, scaler |-> self.scaler, model |-> self.model,
          ret |-> None]
    ELSE IF NFeatures(columns) = 0
    THEN [fitted |-> self.fitted, scaler |-> self.scaler, model |-> self.model,
          ret |-> Raise("ValueError")]
    ELSE [fitted |-> TRUE,
          scaler |-> [rows |-> rows, columns |-> columns],
          model  |-> [rows |-> rows, columns |-> columns, trees |-> trees],
          ret    |-> None]

\* model.score_samples(features_scaled)[0]
score_samples(model) == model.trees.score

\* model.predict(features_scaled)[0]
model_predict(model) == model.trees.decision

\* The result of a prediction from the forest's two answers.
Prediction(anomaly_score, decision) ==
    Dict([anomaly_score |-> anomaly_score, is_anomaly |-> decision = -1,
          confidence |-> <<Abs(anomaly_score[1]), anomaly_score[2]>>,
          threshold |-> Rat(-1, 2)])

\* Mutant of predict: the "no features" fallback returned without its note.
predictNoNote(self, current_data) ==
    IF ~self.fitted
    THEN Dict([anomaly_score |-> R(0), is_anomaly |-> FALSE, confidence |-> R(0),
               note |-> "Model not fitted - insufficient historical data"])
    ELSE IF NFeatures(DOMAIN current_data) = 0
    THEN Dict([anomaly_score |-> R(0), is_anomaly |-> FALSE, confidence |-> R(0)])
    ELSE IF NFeatures(DOMAIN current_data) # NFeatures(self.scaler.columns)
    THEN Raise("ValueError")
    ELSE Prediction(score_samples(self.model), model_predict(self.model))

\* predict.  StandardScaler.transform raises when the sample has another
\* number of features than the training frame.
predict(self, current_data) ==
    IF ~self.fitted
    THEN Dict([anomaly_score |-> R(0), is_anomaly |-> FALSE, confidence |-> R(0),
               note |-> "Model not fitted - insufficient historical data"])
    ELSE IF NFeatures(DOMAIN current_data) = 0
    THEN Dict([anomaly_score |-> R(0), is_anomaly |-> FALSE, confidence |-> R(0),
               note |-> "No features available"])
    ELSE IF NFeatures(DOMAIN current_data) # NFeatures(self.scaler.columns)
    THEN Raise("ValueError")
    ELSE Prediction(score_samples(self.model), model_predict(self.model))

\* Mutant of SelfAfterPredict: the sample is scaled with fit_transform, which
\* refits the scaler on it.
SelfAfterPredictRefitted(self, current_data) ==
    IF self.fitted /\ NFeatures(DOMAIN current_data) # 0
    THEN [self EXCEPT !.scaler = [rows |-> 1, columns |-> DOMAIN current_data]]
    ELSE self

\* The detector after predict has run on it: fitted, scaler and model are
\* read (transform, score_samples, predict) and none is assigned or refitted.
SelfAfterPredict(self, current_data) == self

----------------------------------------------------------------------------
(* DataFusionService                                                       *)

\* Mutant of weights: the ground-sensor and satellite weights exchanged.
weightsExchanged ==
    [satellite |-> Rat(5, 10), ground_sensor |-> Rat(4, 10), weather |-> Rat(1, 10)]

\* the table __init__ assigns to self.weights
weights ==
    [satellite |-> Rat(4, 10), ground_sensor |-> Rat(5, 10), weather |-> Rat(1, 10)]

\* DataFusionService(): the attributes of a new instance
NewService == [weights |-> weights]

\* The loop "for meas in measurements": the values of the readings of one
\* parameter whose value is not None, in order.
RECURSIVE GroundValues(_, _, _)
GroundValues(measurements, parameter, i) ==
    IF i > Len(measurements) THEN <<>>
    ELSE LET meas == measurements[i]
         IN  IF "parameter" \in DOMAIN meas /\ meas["parameter"] = parameter
                /\ Get(meas, "value", None) # None
             THEN <<meas["value"]>> \o GroundValues(measurements, parameter, i + 1)
             ELSE GroundValues(measurements, parameter, i + 1)

\* Truth value of a number or None, as "if x:" takes it.
Truthy(v) == v # None /\ v[1] # 0

\* "p in sentinel_data and sentinel_data[p].get('value')"
SatelliteContributes(sentinel_data, pollutant) ==
    /\ pollutant \in DOMAIN sentinel_data
    /\ Truthy(Get(sentinel_data[pollutant], "value", None))

\* 6.022e23 / (1e6 * 1e12): the three powers of ten of the conversion folded
\* into one divisor
AvogadroScaled == 602200

\* mol * 1e6 * molar_mass / 6.022e23 * 1e12
ToMicrograms(mol, molar_mass) == RDiv(RMul(mol, molar_mass), R(AvogadroScaled))

\* numpy.average(values, weights=weights): sum(v * w) / sum(w)
RECURSIVE WeightedSum(_, _, _)
WeightedSum(values, ws, i) ==
    IF i > Len(values) THEN R(0)
    ELSE RAdd(RMul(values[i], ws[i]), WeightedSum(values, ws, i + 1))

RECURSIVE Sum(_, _)
Sum(ws, i) == IF i > Len(ws) THEN R(0) ELSE RAdd(ws[i], Sum(ws, i + 1))

Average(values, ws) == RDiv(WeightedSum(values, ws, 1), Sum(ws, 1))

\* the conditional expression that labels the NO2 and SO2 metrics
SourceLabel(values, measurements) ==
    IF Len(values) > 1 THEN "Fused (OpenAQ + Sentinel-5P)"
    ELSE IF Len(measurements) > 0 THEN "OpenAQ"
    ELSE "Sentinel-5P"

\* The values and weights lists of one pollutant: the ground readings, then
\* the converted satellite reading when there is a molar mass to convert with.
FusionValues(measurements, sentinel_data, pollutant, molar_mass) ==
    LET ground == GroundValues(measurements, pollutant, 1)
    IN  IF molar_mass # None /\ SatelliteContributes(sentinel_data, pollutant)
        THEN ground \o <<ToMicrograms(sentinel_data[pollutant]["value"], molar_mass)>>
        ELSE ground

FusionWeights(self, measurements, sentinel_data, pollutant, molar_mass) ==
    LET ground == [i \in 1..Len(GroundValues(measurements, pollutant, 1)) |->
                      self.weights["ground_sensor"]]
    IN  IF molar_mass # None /\ SatelliteContributes(sentinel_data, pollutant)
        THEN ground \o <<self.weights["satellite"]>>
        ELSE ground

\* What the three blocks of _fuse_air_quality differ in: the WHO 24h
\* threshold they attach and the molar mass they convert with (None for
\* PM2.5, which has no satellite block).
FusedPollutants ==
    [pm25 |-> [threshold |-> R(45),  molar_mass |-> None],
     no2  |-> [threshold |-> R(200), molar_mass |-> Rat(4601, 100)],
     so2  |-> [threshold |-> R(40),  molar_mass |-> Rat(6407, 100)]]

FusedMetric(self, measurements, sentinel_data, pollutant) ==
    LET mm     == FusedPollutants[pollutant].molar_mass
        values == FusionValues(measurements, sentinel_data, pollutant, mm)
        ws     == FusionWeights(self, measurements, sentinel_data, pollutant, mm)
    IN  [value     |-> Average(values, ws),
         unit      |-> "ug/m3",
         threshold |-> FusedPollutants[pollutant].threshold,
         source    |-> IF pollutant = "pm25" THEN "OpenAQ"
                       ELSE SourceLabel(values, measurements)]

_fuse_air_quality(self, sources) ==
    LET openaq_data   == Get(sources, "openaq", EmptyDict)
        measurements  == Get(openaq_data, "measurements", <<>>)
        sentinel_data == Get(sources, "sentinel5p", EmptyDict)
        fused         == {p \in DOMAIN FusedPollutants :
                             Len(FusionValues(measurements, sentinel_data, p,
                                              FusedPollutants[p].molar_mass)) > 0}
    IN  [p \in fused |-> FusedMetric(self, measurements, sentinel_data, p)]

\* Mutant of _fuse_water_quality: the placeholder has no quality_score.
_fuse_water_qualityNoScore(self, sources) ==
    [turbidity |-> None, status |-> "Data not available", source |-> "Placeholder"]

_fuse_water_quality(self, sources) ==
    [quality_score |-> R(75), turbidity |-> None,
     status |-> "Data not available", source |-> "Placeholder"]

_fuse_land_metrics(self, sources) ==
    [deforestation_risk |-> R(25), trend |-> "stable", source |-> "Placeholder"]

fuse_data(self, raw_data) ==
    LET sources == Get(raw_data, "sources", EmptyDict)
    IN  [air   |-> _fuse_air_quality(self, sources),
         water |-> _fuse_water_quality(self, sources),
         land  |-> _fuse_land_metrics(self, sources)]

\* Mutant of SelfAfterFusion: the weights are left exchanged behind.
SelfAfterFusionExchanged(self) == [self EXCEPT !.weights = weightsExchanged]

\* The instance after _fuse_air_quality has run on it: self.weights is read
\* (for each value appended) and no attribute is ever assigned.
SelfAfterFusion(self) == self

----------------------------------------------------------------------------
(* Inputs of the RiskScorer calls.                                         *)

\* longest historical_trend
MaxHist == 32

\* oldest data, in hours
MaxAgeHours == 75

\* most sources attempted by the ingestion (coverage = valid / total)
MaxSources == 4

\* a metric dict {"value": v}
Metric(v) == [value |-> v]

\* An optional dict entry is <<>> when the key is absent and <<x>> when it
\* is present with value x.
Present(choice, keys) ==
    [k \in {k \in keys : Len(choice[k]) = 1} |-> choice[k][1]]

Pm25Options ==
    {<<>>, <<EmptyDict>>, <<Metric(None)>>, <<Metric(R(0))>>, <<Metric(R(45))>>,
     <<Metric(R(90))>>, <<Metric(Rat(1559, 20))>>, <<Metric(R(-5))>>}

No2Options ==
    {<<>>, <<Metric(None)>>, <<Metric(R(100))>>, <<Metric(R(200))>>, <<Metric(R(500))>>}

So2Options == {<<>>, <<Metric(R(20))>>, <<Metric(Rat(253, 10))>>, <<Metric(R(100))>>}

Pm10Options == {<<>>, <<Metric(R(90))>>}

\* ozone has no 24h threshold in WHO_THRESHOLDS (only "o3_8h")
O3Options == {<<>>, <<Metric(R(500))>>}

\* the choices of an air domain: one option for each pollutant
AirChoices ==
    [pm25 : Pm25Options, no2 : No2Options, so2 : So2Options, pm10 : Pm10Options,
     o3 : O3Options]

AirDict(choice) == Present(choice, {"pm25", "no2", "so2", "pm10", "o3"})

WaterOptions ==
    {<<>>, <<EmptyDict>>} \cup
    {<<[quality_score |-> q]>> : q \in {R(75), R(0), R(100), R(150), R(-100), None}}

\* A metrics bundle: the air domain absent or built from a choice, the water
\* domain absent or present.
MetricsBundle(hasAir, airChoice, water) ==
    Present([air   |-> IF hasAir THEN <<AirDict(airChoice)>> ELSE <<>>,
             water |-> water],
            {"air", "water"})

\* One day of history: the items of its air dict, in insertion order.
Day(items) == [air |-> items]

DayKinds ==
    {Day(<<<<"pm25", Metric(R(40))>>>>),                             \* below
     Day(<<<<"pm25", Metric(R(45))>>>>),                             \* at the threshold
     Day(<<<<"pm25", Metric(R(46))>>>>),                             \* above
     Day(<<<<"pm25", Metric(R(90))>>, <<"so2", Metric(R(50))>>>>),   \* two above
     Day(<<<<"o3", Metric(R(500))>>>>),                              \* no o3_24h key
     Day(<<<<"pm25", EmptyDict>>, <<"no2", Metric(R(201))>>>>),      \* no value key
     Day(<<<<"so2", Metric(R(41))>>, <<"pm25", Metric(None)>>>>),    \* None after the break
     Day(<<<<"pm25", Metric(None)>>>>),                              \* None compared
     EmptyDict}                                                      \* no air domain

\* a days of kind x followed by b days of kind y (oldest first)
TwoRuns(x, a, y, b) == [i \in 1..(a + b) |-> IF i <= a THEN x ELSE y]

\* coverage in [0, 1]: valid sources / total sources
Coverages ==
    {c \in {Rat(k, m) : k \in 0..MaxSources, m \in 1..MaxSources} : RLe(c, R(1))}

CoverageOptions == {<<>>} \cup {<<c>> : c \in Coverages}

AgeOptions == {<<>>} \cup {<<R(h)>> : h \in 0..MaxAgeHours}

DataQualityDict(coverage, age_hours) ==
    Present([coverage |-> coverage, age_hours |-> age_hours], {"coverage", "age_hours"})

\* The bundles, histories and data qualities the full scoring call is run on.
ScoredMetrics ==
    {EmptyDict,
     [air |-> [pm25 |-> Metric(Rat(1559, 20))]],
     [air |-> [so2 |-> Metric(Rat(253, 10))]],
     [air |-> [pm25 |-> Metric(R(90)), no2 |-> Metric(R(100))]],
     [air |-> [pm25 |-> Metric(R(45)), no2 |-> Metric(R(100)), so2 |-> Metric(R(20))],
      water |-> [quality_score |-> R(75)]],
     [air |-> EmptyDict, water |-> [quality_score |-> R(75)]],
     [air |-> [pm25 |-> Metric(None)], water |-> [quality_score |-> R(-100)]],
     [air |-> [pm10 |-> Metric(R(90))]],
     [air |-> [pm25 |-> Metric(R(0)), so2 |-> Metric(R(100))],
      water |-> [quality_score |-> None]]}

\* The bundles the confidence is computed for: no air domain, and air
\* domains of zero to three metrics (one of them without a value).
ConfidenceMetrics ==
    {EmptyDict,
     [air |-> EmptyDict],
     [air |-> [pm25 |-> Metric(R(90))]],
     [air |-> [pm25 |-> Metric(R(90)), no2 |-> Metric(None)]],
     [air |-> [pm25 |-> Metric(R(45)), no2 |-> Metric(R(100)), so2 |-> Metric(R(20))],
      water |-> [quality_score |-> R(75)]]}

\* One block of _calculate_exposure_score, for any threshold the table may hold.
StepMaxima == {R(0), Rat(1, 2), R(2)}

StepValues == {R(-5), R(0), R(45), R(90)}

StepThresholds == {R(0), R(45), R(200)}

\* The metrics the technical breakdown is given: with and without the value
\* and threshold keys, with a zero threshold, with None.
TechnicalMetricOptions ==
    {<<>>,
     <<[value |-> R(90), unit |-> "ug/m3", threshold |-> R(45), source |-> "OpenAQ"]>>,
     <<[value |-> R(6), unit |-> "ug/m3", threshold |-> R(200), source |-> "Sentinel-5P"]>>,
     <<[value |-> R(90), threshold |-> R(0), source |-> "OpenAQ"]>>,
     <<[value |-> R(90)]>>,
     <<[value |-> None, threshold |-> R(0)]>>,
     <<[value |-> None]>>,
     <<[value |-> None, threshold |-> R(45)]>>,
     <<[value |-> R(90), threshold |-> None]>>,
     <<[threshold |-> R(45)]>>}

TechnicalRiskResults ==
    {EmptyDict,
     [risk_score |-> R(45), exposure_score |-> R(50), duration_score |-> R(50),
      uncertainty_penalty |-> R(0), verdict |-> "MODERATE", confidence |-> R(100),
      model_version |-> "1.0.0"]}

ScoredHistories ==
    LET low  == Day(<<<<"pm25", Metric(R(40))>>>>)
        high == Day(<<<<"pm25", Metric(R(46))>>>>)
        bad  == Day(<<<<"pm25", Metric(None)>>>>)
    IN  {None, List(<<>>), List(TwoRuns(high, 6, high, 0)),
         List(TwoRuns(high, 7, high, 0)), List(TwoRuns(low, 4, high, 3)),
         List(TwoRuns(high, MaxHist - MaxExaminedDays, low, MaxExaminedDays)),
         List(TwoRuns(low, 6, bad, 1))}

ScoredDataQualities ==
    {None, Dict(EmptyDict)} \cup
    {Dict([coverage |-> c, age_hours |-> R(h)]) :
        c \in {R(0), Rat(1, 4), Rat(1, 2), R(1)}, h \in {0, 30, 48, 72}}

\* What the ingestion records for a source: the dict its client returns, with
\* data or with an "error" key, or the entry made for an exception.
SourceNames == {"openaq", "sentinel5p", "weather"}

ExceptionEntry(source_name) == [error |-> "timeout", source |-> source_name]

OpenAQResults ==
    {[source |-> "OpenAQ", timestamp |-> [parses |-> TRUE, hour |-> 0],
      measurements |-> <<[parameter |-> "pm25", value |-> R(90)]>>,
      locations_count |-> 1],
     [source |-> "OpenAQ", timestamp |-> [parses |-> TRUE, hour |-> 0],
      measurements |-> <<>>, locations_count |-> 0],
     [source |-> "OpenAQ", error |-> "HTTPError", measurements |-> <<>>]}

Sentinel5PResults ==
    {[source |-> "Sentinel-5P TROPOMI", timestamp |-> [parses |-> TRUE, hour |-> 0],
      no2 |-> Metric(R(6022)), so2 |-> Metric(None), product |-> "OFFL L3"],
     [source |-> "Sentinel-5P", error |-> "Earth Engine not initialized",
      data |-> EmptyDict]}

WeatherResults ==
    {[source |-> "ERA5", note |-> "ERA5 integration requires CDS API access",
      wind_u |-> None, wind_v |-> None, timestamp |-> [parses |-> TRUE, hour |-> 0]]}

SourceResults(source_name) ==
    {ExceptionEntry(source_name)} \cup
    (IF source_name = "openaq" THEN OpenAQResults
     ELSE IF source_name = "sentinel5p" THEN Sentinel5PResults
     ELSE WeatherResults)

\* the sources dicts of the raw data, for every set of enabled sources
SourcesDicts ==
    UNION {{d \in [enabled -> UNION {SourceResults(n) : n \in SourceNames}] :
               \A n \in enabled : d[n] \in SourceResults(n)} :
           enabled \in SUBSET SourceNames}

\* the hours of the clock
ClockHours == {0, 30, 72}

TimestampOptions ==
    {<<>>, <<[parses |-> FALSE, hour |-> 0]>>} \cup
    {<<[parses |-> TRUE, hour |-> h]>> : h \in ClockHours}

\* The calls of trace_plume: detection points on and off the equator, wind
\* data with null components, with values, and without the keys.
TraceLatitudes == {R(-90), R(0), Rat(1297, 100)}

TraceLongitudes == {R(-180), R(0), Rat(7759, 100)}

TraceWindData ==
    {[source |-> "ERA5", wind_u |-> None, wind_v |-> None],
     [source |-> "ERA5", wind_u |-> R(3), wind_v |-> R(-1)],
     EmptyDict}

TraceHoursBack == {-1, 0, 48, 72}

----------------------------------------------------------------------------
(* The RiskScorer calls.  The initial state holds one call that is about   *)
(* to be made; the call's action records what it returns.                  *)

DetectorInit ==
    /\ fitted = FALSE
    /\ scaler = <<>>
    /\ forest = <<>>
    /\ lastFit = -1

\* the module-level DataFusionService of each route
Instances == {"location", "analysis"}

ServicesInit == services = [i \in Instances |-> NewService]

\* no call runs beside the one the state describes
NoCalls == calls = <<>>

Init ==
    /\ pc = "call"
    /\ ret = <<>>
    /\ DetectorInit
    /\ ServicesInit
    /\ NoCalls
    /\ \/ /\ op = "_calculate_exposure_score"
          /\ \E hasAir \in BOOLEAN, c \in AirChoices, w \in WaterOptions :
                /\ ~hasAir => c = [k \in DOMAIN c |-> <<>>]
                /\ args = [metrics |-> MetricsBundle(hasAir, c, w)]
       \/ /\ op = "_calculate_duration_score"
          /\ \/ args = [historical_trend |-> None]
             \/ \E x \in DayKinds, y \in DayKinds, a \in 0..MaxHist :
                   \E b \in 0..(MaxHist - a) :
                      args = [historical_trend |-> List(TwoRuns(x, a, y, b))]
       \/ /\ op = "_calculate_uncertainty_penalty"
          /\ \E c \in CoverageOptions, h \in AgeOptions :
                args = [data_quality |-> DataQualityDict(c, h)]
       \/ /\ op = "_calculate_confidence"
          /\ \E c \in CoverageOptions, h \in AgeOptions, m \in ConfidenceMetrics :
                args = [data_quality |-> DataQualityDict(c, h), metrics |-> m]
       \/ /\ op = "calculate_risk_score"
          /\ \E m \in ScoredMetrics, h \in ScoredHistories, dq \in ScoredDataQualities :
                args = [metrics |-> m, historical_trend |-> h, data_quality |-> dq]
       \/ /\ op = "exceedance"
          /\ \E m \in StepMaxima, v \in StepValues, t \in StepThresholds :
                args = [max_exceedance |-> m, value |-> v, threshold |-> t]
       \/ /\ op = "_assess_data_quality"
          /\ \E hasSources \in BOOLEAN, d \in SourcesDicts, t \in TimestampOptions,
                utcnow \in ClockHours :
                /\ ~hasSources => d = EmptyDict
                /\ t # <<>> => utcnow >= t[1].hour
                /\ args = [raw_data |->
                              Present([sources |-> IF hasSources THEN <<d>> ELSE <<>>,
                                       timestamp |-> t], {"sources", "timestamp"}),
                           utcnow |-> utcnow]
       \/ /\ op = "trace_plume"
          /\ \E lat \in TraceLatitudes, lng \in TraceLongitudes,
                pollutant \in {"SO2", "NO2"}, intensity \in {None, R(60)},
                wind_data \in TraceWindData, hours_back \in TraceHoursBack :
                args = [detection_lat |-> lat, detection_lng |-> lng,
                        pollutant |-> pollutant, intensity |-> intensity,
                        wind_data |-> wind_data, hours_back |-> hours_back]
       \/ /\ op = "_generate_technical_breakdown"
          /\ \E hasAir \in BOOLEAN, a \in TechnicalMetricOptions,
                b \in TechnicalMetricOptions, r \in TechnicalRiskResults :
                /\ ~hasAir => a = <<>> /\ b = <<>>
                /\ args = [metrics |->
                              Present([air |-> IF hasAir
                                               THEN <<Present([pm25 |-> a, no2 |-> b],
                                                              {"pm25", "no2"})>>
                                               ELSE <<>>],
                                      {"air"}),
                           risk_result |-> r]

Return(value) ==
    /\ pc = "call"
    /\ pc' = "done"
    /\ ret' = value
    /\ UNCHANGED <<op, args>>

ExposureCall ==
    /\ op = "_calculate_exposure_score"
    /\ Return(_calculate_exposure_score(args.metrics))
    /\ UNCHANGED <<fitted, scaler, forest, lastFit, services, calls>>

DurationCall ==
    /\ op = "_calculate_duration_score"
    /\ Return(_calculate_duration_score(args.historical_trend))
    /\ UNCHANGED <<fitted, scaler, forest, lastFit, services, calls>>

PenaltyCall ==
    /\ op = "_calculate_uncertainty_penalty"
    /\ Return(_calculate_uncertainty_penalty(args.data_quality))
    /\ UNCHANGED <<fitted, scaler, forest, lastFit, services, calls>>

ConfidenceCall ==
    /\ op = "_calculate_confidence"
    /\ Return(_calculate_confidence(args.data_quality, args.metrics))
    /\ UNCHANGED <<fitted, scaler, forest, lastFit, services, calls>>

\* one of the three blocks of _calculate_exposure_score, from the threshold on
ExceedanceCall ==
    /\ op = "exceedance"
    /\ Return(RMax(args.max_exceedance, Exceedance(args.value, args.threshold)))
    /\ UNCHANGED <<fitted, scaler, forest, lastFit, services, calls>>

TechnicalCall ==
    /\ op = "_generate_technical_breakdown"
    /\ Return(_generate_technical_breakdown(args.metrics, <<>>, args.risk_result))
    /\ UNCHANGED <<fitted, scaler, forest, lastFit, services, calls>>

AssessCall ==
    /\ op = "_assess_data_quality"
    /\ Return(_assess_data_quality(args.raw_data, args.utcnow))
    /\ UNCHANGED <<fitted, scaler, forest, lastFit, services, calls>>

TracePlumeCall ==
    /\ op = "trace_plume"
    /\ Return(trace_plume(args.detection_lat, args.detection_lng, args.pollutant,
                          args.intensity, args.wind_data, args.hours_back))
    /\ UNCHANGED <<fitted, scaler, forest, lastFit, services, calls>>

RiskCall ==
    /\ op = "calculate_risk_score"
    /\ Return(calculate_risk_score(args.metrics, args.historical_trend,
                                   args.data_quality))
    /\ UNCHANGED <<fitted, scaler, forest, lastFit, services, calls>>

Next ==
    \/ ExposureCall \/ DurationCall \/ PenaltyCall \/ ConfidenceCall \/ RiskCall
    \/ ExceedanceCall \/ TechnicalCall \/ TracePlumeCall \/ AssessCall

Spec == Init /\ [][Next]_vars

----------------------------------------------------------------------------
(* Properties of the RiskScorer.                                           *)

Returned(name) == pc = "done" /\ op = name /\ ~IsRaise(ret)

InRange(x) == RLe(R(0), x) /\ RLe(x, R(100))

\* C1: every RiskResult returned by calculate_risk_score has its risk_score
\* and its confidence in [0, 100].
C1_ScoreAndConfidenceInRange ==
    Returned("calculate_risk_score") =>
        InRange(Of(ret).risk_score) /\ InRange(Of(ret).confidence)

\* A result for stale, thinly covered data with a history long enough to count.
C1_Witness ==
    /\ Returned("calculate_risk_score")
    /\ args.data_quality = Dict([coverage |-> Rat(1, 4), age_hours |-> R(72)])
    /\ args.historical_trend # None
    /\ Len(Of(args.historical_trend)) >= MinHistory
    /\ Of(ret).risk_score = Rat(942, 10)
    /\ Of(ret).confidence = Rat(175, 10)

\* The verdict as the step function of a score that C2 states.
StepVerdict(score) ==
    IF RLe(R(67), score) THEN "UNSAFE"
    ELSE IF RLe(R(34), score) THEN "MODERATE"
    ELSE "SAFE"

\* C2: in every returned RiskResult the verdict is the step function of the
\* risk_score carried in that same result (>= 67 UNSAFE, >= 34 MODERATE,
\* otherwise SAFE).
C2_VerdictIsStepOfReturnedScore ==
    Returned("calculate_risk_score") =>
        Of(ret).verdict = StepVerdict(Of(ret).risk_score)

\* The WHO 24h threshold C3 divides each air pollutant by.
ClaimedThreshold ==
    [pm25 |-> R(45), no2 |-> R(200), so2 |-> R(40), pm10 |-> R(45)]

\* The exceedance ratios of the metrics that are present, as C3 lists them.
ClaimedRatios(metrics) ==
    LET air   == Get(metrics, "air", EmptyDict)
        water == Get(metrics, "water", EmptyDict)
    IN  {RDiv(air[p]["value"], ClaimedThreshold[p]) :
            p \in {q \in DOMAIN air \cap DOMAIN ClaimedThreshold :
                      Get(air[q], "value", None) # None}}
        \cup {RDiv(RSub(R(100), water[k]), R(100)) : k \in DOMAIN water}

\* min(100, 50 x M), M the largest ratio (0 when there is none or none is positive)
ClaimedExposure(metrics) ==
    LET ratios == ClaimedRatios(metrics) \cup {R(0)}
        M      == CHOOSE r \in ratios : \A q \in ratios : RLe(q, r)
    IN  RMin(R(100), RMul(R(50), M))

\* C3: the exposure score is min(100, 50 x M), M being the largest exceedance
\* ratio over every pollutant present in the air domain and the water
\* quality_score.
C3_ExposureOverAllPresentMetrics ==
    Returned("_calculate_exposure_score") =>
        ret = ClaimedExposure(args.metrics)

\* The data quality the call works with (the default when None is given).
EffectiveDataQuality(data_quality) ==
    IF data_quality = None THEN [coverage |-> R(1), age_hours |-> R(0)]
    ELSE Of(data_quality)

\* C4: the returned risk_score is 0.6 x exposure + 0.3 x duration +
\* 0.1 x uncertainty penalty, clamped to [0, 100] (and rounded to one decimal
\* like every returned score), the three sub-scores being the ones of the
\* same call, which the result carries rounded.
C4_CompositeScore ==
    Returned("calculate_risk_score") =>
        LET e == _calculate_exposure_score(args.metrics)
            d == _calculate_duration_score(args.historical_trend)
            u == _calculate_uncertainty_penalty(EffectiveDataQuality(args.data_quality))
            c == RAdd(RAdd(RMul(Rat(3, 5), e), RMul(Rat(3, 10), d)), RMul(Rat(1, 10), u))
        IN  /\ Of(ret).exposure_score = Round1(e)
            /\ Of(ret).duration_score = Round1(d)
            /\ Of(ret).uncertainty_penalty = Round1(u)
            /\ Of(ret).risk_score =
                   Round1(IF RLt(c, R(0)) THEN R(0)
                          ELSE IF RLt(R(100), c) THEN R(100) ELSE c)

\* Three high days in seven, a penalty of 20 + 22.5 and an exposure of 100.
C4_Witness ==
    /\ Returned("calculate_risk_score")
    /\ Of(ret).exposure_score = R(100)
    /\ Of(ret).duration_score = Rat(429, 10)
    /\ Of(ret).uncertainty_penalty = Rat(425, 10)
    /\ Of(ret).risk_score = Rat(771, 10)

\* A day is a high-exposure day when some air pollutant with a WHO 24h
\* threshold has a value strictly above it.
HighExposureDay(day) ==
    LET items == Get(day, "air", <<>>)
    IN  \E i \in 1..Len(items) :
            /\ "value" \in DOMAIN items[i][2]
            /\ items[i][2]["value"] # None
            /\ Key24h(items[i][1]) \in {"pm25_24h", "pm10_24h", "no2_24h", "so2_24h"}
            /\ RLt(WHO_THRESHOLDS[Key24h(items[i][1])], items[i][2]["value"])

ClaimedDuration(historical_trend) ==
    IF historical_trend = None THEN R(50)
    ELSE LET h == Of(historical_trend)
             n == Len(h)
             m == IF n < 30 THEN n ELSE 30
         IN  IF n < 7 THEN R(50)
             ELSE Rat(100 * Cardinality({i \in (n - m + 1)..n : HighExposureDay(h[i])}), m)

\* C9: the duration score is 50 for a history that is None, empty or shorter
\* than 7 entries, and otherwise the percentage of high-exposure days among
\* the most recent min(30, n) entries, each entry counted once.
C9_DurationScore ==
    Returned("_calculate_duration_score") =>
        ret = ClaimedDuration(args.historical_trend)

\* 32 entries: five days with two pollutants above their thresholds, then 27
\* days that are not high.  The two oldest are not examined and each of the
\* other three counts once: 3 / 30.
C9_Witness ==
    /\ Returned("_calculate_duration_score")
    /\ args.historical_trend # None
    /\ Len(Of(args.historical_trend)) = MaxExaminedDays + 2
    /\ Len(Get(Of(args.historical_trend)[1], "air", <<>>)) = 2
    /\ HighExposureDay(Of(args.historical_trend)[1])
    /\ ~HighExposureDay(Of(args.historical_trend)[MaxExaminedDays + 2])
    /\ ret = R(10)

\* The two parts of the penalty as C10 states them.
ClaimedAgePenalty(age_hours) ==
    IF RLe(age_hours, R(24)) THEN R(0)
    ELSE LET ramp == RMul(RSub(age_hours, R(24)), Rat(20, 24))
         IN  IF RLt(R(20), ramp) THEN R(20) ELSE ramp

ClaimedCoveragePenalty(coverage) ==
    IF RLt(coverage, Rat(1, 2)) THEN RMul(RSub(R(1), coverage), R(30)) ELSE R(0)

\* C10: the uncertainty penalty is A + C, at most 100, with A the age ramp
\* capped at 20 and C = (1 - coverage) x 30 below 50% coverage; at 72 hours
\* and full coverage it is 20.
C10_UncertaintyPenalty ==
    Returned("_calculate_uncertainty_penalty") =>
        LET dq  == args.data_quality
            sum == RAdd(ClaimedAgePenalty(Get(dq, "age_hours", R(0))),
                        ClaimedCoveragePenalty(Get(dq, "coverage", R(1))))
        IN  /\ ret = IF RLt(R(100), sum) THEN R(100) ELSE sum
            /\ dq = [coverage |-> R(1), age_hours |-> R(72)] => ret = R(20)

C10_Witness ==
    /\ Returned("_calculate_uncertainty_penalty")
    /\ args.data_quality = [coverage |-> R(1), age_hours |-> R(72)]
    /\ ret = R(20)

\* The parts of the confidence as C11 states them.
ClaimedAgeReduction(age_hours) ==
    IF RLe(age_hours, R(24)) THEN R(0)
    ELSE LET ramp == RMul(RDiv(RSub(age_hours, R(24)), R(24)), R(30))
         IN  IF RLt(R(30), ramp) THEN R(30) ELSE ramp

ClaimedAirFactor(metrics) ==
    IF "air" \notin DOMAIN metrics THEN Rat(7, 10)
    ELSE IF Cardinality(DOMAIN metrics["air"]) < 2 THEN Rat(7, 10)
    ELSE R(1)

ClaimedConfidence(data_quality, metrics) ==
    LET subtracted == RSub(R(100), ClaimedAgeReduction(Get(data_quality, "age_hours", R(0))))
        covered    == RMul(subtracted, Get(data_quality, "coverage", R(1)))
        factored   == RMul(covered, ClaimedAirFactor(metrics))
    IN  IF RLt(factored, R(0)) THEN R(0)
        ELSE IF RLt(R(100), factored) THEN R(100) ELSE factored

\* C11: the confidence is (100 - R) x coverage x F clamped to [0, 100], R
\* being the age ramp capped at 30 (0 up to 24 hours) and F being 0.7 when
\* the air domain is absent or holds fewer than 2 metrics and 1 otherwise.
C11_Confidence ==
    Returned("_calculate_confidence") =>
        ret = ClaimedConfidence(args.data_quality, args.metrics)

\* 36 hours old, half of the sources valid, one air metric:
\* (100 - 15) x 0.5 x 0.7 = 29.75.
C11_Witness ==
    /\ Returned("_calculate_confidence")
    /\ DOMAIN args.data_quality = {"coverage", "age_hours"}
    /\ args.data_quality["age_hours"] = R(36)
    /\ args.data_quality["coverage"] = Rat(1, 2)
    /\ "air" \in DOMAIN args.metrics
    /\ Cardinality(DOMAIN args.metrics["air"]) = 1
    /\ ret = Rat(119, 4)

\* The data quality and the confidence of a call that computed a confidence.
CallDataQuality ==
    IF op = "calculate_risk_score" THEN EffectiveDataQuality(args.data_quality)
    ELSE args.data_quality

CallConfidence == IF op = "calculate_risk_score" THEN Of(ret).confidence ELSE ret

\* a confidence has been returned for data 72 hours old with full coverage
\* and at least two air metrics, each with a value
ConfidenceAt72Hours ==
    /\ pc = "done"
    /\ op \in {"_calculate_confidence", "calculate_risk_score"}
    /\ ~IsRaise(ret)
    /\ DOMAIN CallDataQuality = {"coverage", "age_hours"}
    /\ CallDataQuality["age_hours"] = R(72)
    /\ CallDataQuality["coverage"] = R(1)
    /\ "air" \in DOMAIN args.metrics
    /\ Cardinality(DOMAIN args.metrics["air"]) >= 2
    /\ \A p \in DOMAIN args.metrics["air"] :
          Get(args.metrics["air"][p], "value", None) # None

\* C12 as stated: at age_hours = 72 and coverage = 1.0, with at least two
\* air metrics, the confidence returned by the scorer is 40.
C12_ConfidenceIs40 == ConfidenceAt72Hours => CallConfidence = R(40)

\* C12, amended: at age_hours = 72 and coverage = 1.0, with at least two air
\* metrics, the confidence returned by the scorer is 70: the subtraction is
\* min(30, 60) = 30, not 60.
C12_ConfidenceIs70 == ConfidenceAt72Hours => CallConfidence = R(70)

\* The full scoring call at these inputs, returning 70.0.
C12_Witness ==
    /\ ConfidenceAt72Hours
    /\ op = "calculate_risk_score"
    /\ Of(ret).confidence = R(70)

\* the fields of a complete RiskResult
RiskResultFields ==
    {"risk_score", "exposure_score", "duration_score", "uncertainty_penalty",
     "verdict", "confidence", "model_version"}

\* the water quality_score of a bundle is a number when it is there
WaterScoreIsNumber(metrics) ==
    LET water == Get(metrics, "water", EmptyDict)
    IN  "quality_score" \in DOMAIN water => water["quality_score"] # None

\* C13: calculate_risk_score never raises on partial data (missing domains,
\* missing pollutants, air metrics or history entries whose value is missing
\* or None, a history that is None or short, a data quality that is None or
\* lacks keys): it returns a complete RiskResult.  Stated for the bundles
\* whose water quality_score is a number, so that what refutes it is the
\* history and nothing else.
C13_NeverRaisesOnPartialData ==
    (pc = "done" /\ op = "calculate_risk_score"
        /\ WaterScoreIsNumber(args.metrics)) =>
        /\ ~IsRaise(ret)
        /\ DOMAIN Of(ret) = RiskResultFields

\* The air pollutants that have a positive 24h threshold in the WHO table.
HasExposureThreshold(pollutant) ==
    /\ Key24h(pollutant) \in DOMAIN WHO_THRESHOLDS
    /\ RLt(R(0), WHO_THRESHOLDS[Key24h(pollutant)])

\* the bundle without the air metrics that have no such threshold
WithoutInvalidThresholds(metrics) ==
    IF "air" \notin DOMAIN metrics THEN metrics
    ELSE [d \in DOMAIN metrics |->
             IF d = "air"
             THEN [q \in {x \in DOMAIN metrics["air"] : HasExposureThreshold(x)} |->
                      metrics["air"][q]]
             ELSE metrics[d]]

\* the threshold a metric carries is missing or zero
InvalidThreshold(data) ==
    IF "threshold" \in DOMAIN data THEN data["threshold"] = R(0) ELSE TRUE

TraceFields == {"source_estimate", "trajectory_model", "note", "hours_traced"}

\* C22: trace_plume never raises and returns a complete result: for every
\* detection point, pollutant, intensity, wind data (null components
\* included) and hours_back, the source estimate is the detection point with
\* a confidence radius of 10 km and probability 0.5, and hours_traced is the
\* hours_back given.
C22_TracePlume ==
    (pc = "done" /\ op = "trace_plume") =>
        /\ ~IsRaise(ret)
        /\ DOMAIN Of(ret) = TraceFields
        /\ Of(ret).source_estimate.lat = args.detection_lat
        /\ Of(ret).source_estimate.lng = args.detection_lng
        /\ Of(ret).source_estimate.confidence_radius_km = R(10)
        /\ Of(ret).source_estimate.probability = Rat(1, 2)
        /\ Of(ret).hours_traced = args.hours_back

\* A trace from a point whose latitude differs from its longitude, with null
\* wind components and another hours_back than the default.
C22_Witness ==
    /\ pc = "done" /\ op = "trace_plume"
    /\ args.detection_lat = Rat(1297, 100) /\ args.detection_lng = Rat(7759, 100)
    /\ args.wind_data # EmptyDict /\ args.wind_data.wind_u = None
    /\ args.hours_back = 72
    /\ Of(ret).source_estimate.lat = Rat(1297, 100)
    /\ Of(ret).hours_traced = 72

\* the sources that the raw data of the call records, and those without error
AttemptedSources == DOMAIN Get(args.raw_data, "sources", EmptyDict)

SourcesWithoutError ==
    {k \in AttemptedSources : "error" \notin DOMAIN args.raw_data.sources[k]}

\* C23: the data quality of any raw ingestion result has 0 <= valid_sources <=
\* total_sources, where the valid sources are exactly those whose result has
\* no error, and coverage = valid_sources / total_sources in [0, 1]; with no
\* source attempted the coverage is 0 and nothing is divided by zero.
C23_Coverage ==
    (pc = "done" /\ op = "_assess_data_quality") =>
        /\ ~IsRaise(ret)
        /\ Of(ret).total_sources = Cardinality(AttemptedSources)
        /\ Of(ret).valid_sources = Cardinality(SourcesWithoutError)
        /\ 0 <= Of(ret).valid_sources
        /\ Of(ret).valid_sources <= Of(ret).total_sources
        /\ RLe(R(0), Of(ret).coverage) /\ RLe(Of(ret).coverage, R(1))
        /\ Of(ret).total_sources = 0 => Of(ret).coverage = R(0)
        /\ Of(ret).total_sources > 0 =>
              Of(ret).coverage[1] * Of(ret).total_sources
                  = Of(ret).valid_sources * Of(ret).coverage[2]

\* Three sources attempted, of which one returned an error and one raised.
C23_Witness ==
    /\ pc = "done" /\ op = "_assess_data_quality"
    /\ AttemptedSources = SourceNames
    /\ "error" \in DOMAIN args.raw_data.sources["sentinel5p"]
    /\ args.raw_data.sources["weather"] = ExceptionEntry("weather")
    /\ Of(ret).valid_sources = 1
    /\ Of(ret).coverage = Rat(1, 3)

\* No source attempted: the sources dict is empty.
C23_WitnessNoSource ==
    /\ pc = "done" /\ op = "_assess_data_quality"
    /\ "sources" \in DOMAIN args.raw_data /\ AttemptedSources = {}
    /\ Of(ret).coverage = R(0)

\* the data quality a call scores with: the default when none is given
CallScoredQuality ==
    IF op = "calculate_risk_score"
    THEN IF args.data_quality = None THEN DefaultDataQuality ELSE Of(args.data_quality)
    ELSE args.data_quality

\* coverage in [0, 1] and age_hours >= 0 (an absent key takes its default)
QualityInRange(data_quality) ==
    /\ RLe(R(0), Get(data_quality, "coverage", R(1)))
    /\ RLe(Get(data_quality, "coverage", R(1)), R(1))
    /\ RLe(R(0), Get(data_quality, "age_hours", R(0)))

\* risk_score of the call, before max(0, min(100, risk_score))
CallUnclampedRisk ==
    WeightedCombination(_calculate_exposure_score(args.metrics),
                        _calculate_duration_score(args.historical_trend),
                        _calculate_uncertainty_penalty(CallScoredQuality))

\* C25: for a data quality with coverage in [0, 1] and age_hours >= 0 the
\* uncertainty penalty is at most 50 and the composite risk score at most 95;
\* the clamp of the penalty at 100 and the upper clamp of the risk score at
\* 100 are not reached.
C25_PenaltyAtMost50RiskAtMost95 ==
    /\ (Returned("_calculate_uncertainty_penalty") /\ QualityInRange(CallScoredQuality)) =>
          /\ RLe(ret, R(50))
          /\ RLe(PenaltySum(CallScoredQuality), R(50))
    /\ (Returned("calculate_risk_score") /\ QualityInRange(CallScoredQuality)) =>
          /\ RLe(Of(ret).uncertainty_penalty, R(50))
          /\ RLe(PenaltySum(CallScoredQuality), R(50))
          /\ RLe(Of(ret).risk_score, R(95))
          /\ RLe(CallUnclampedRisk, R(95))

\* The largest of each: old data from no valid source, every examined day
\* high, a reading at twice its threshold.
C25_Witness ==
    /\ Returned("calculate_risk_score")
    /\ Of(ret).uncertainty_penalty = R(50)
    /\ Of(ret).exposure_score = R(100)
    /\ Of(ret).duration_score = R(100)
    /\ Of(ret).risk_score = R(95)

----------------------------------------------------------------------------
(* The fusion call.                                                        *)

\* most ground-sensor measurements in one response
MaxMeasurements == 3

Measurement(parameter, value) == [parameter |-> parameter, value |-> value]

MeasurementKinds ==
    {Measurement("pm25", R(40)), Measurement("pm25", R(50)),
     Measurement("no2", R(40)), Measurement("no2", R(60)),
     Measurement("so2", R(50)), Measurement("so2", R(-5)), Measurement("so2", None),
     Measurement("pm10", R(30))}

\* the ground-sensor entry of the sources: absent, or a list of measurements
OpenAQOptions ==
    {<<>>} \cup
    {<<[measurements |-> m]>> :
        m \in UNION {[1..n -> MeasurementKinds] : n \in 0..MaxMeasurements}}

\* column densities in mol/m2 (6022 converts to 46.01 / 100 ug/m3 of NO2)
SentinelNo2Options ==
    {<<>>, <<EmptyDict>>, <<Metric(None)>>, <<Metric(R(0))>>, <<Metric(R(6022))>>,
     <<Metric(R(-6022))>>}

SentinelSo2Options == {<<>>, <<Metric(R(6022))>>, <<Metric(R(-6022))>>}

InitFusion ==
    /\ pc = "call"
    /\ ret = <<>>
    /\ DetectorInit
    /\ ServicesInit
    /\ NoCalls
    /\ op = "fuse_data"
    /\ \E o \in OpenAQOptions, hasSentinel \in BOOLEAN,
          n \in SentinelNo2Options, x \in SentinelSo2Options :
          /\ ~hasSentinel => n = <<>> /\ x = <<>>
          /\ args = [raw_data |->
                [sources |->
                    Present([openaq     |-> o,
                             sentinel5p |-> IF hasSentinel
                                            THEN <<Present([no2 |-> n, so2 |-> x],
                                                           {"no2", "so2"})>>
                                            ELSE <<>>],
                            {"openaq", "sentinel5p"})]]

FuseCall ==
    /\ op = "fuse_data"
    /\ Return(Dict(fuse_data(services["location"], args.raw_data)))
    /\ UNCHANGED <<fitted, scaler, forest, lastFit, services, calls>>

NextFusion == FuseCall

SpecFusion == InitFusion /\ [][NextFusion]_vars

----------------------------------------------------------------------------
(* Properties of the fusion.                                               *)

\* the arguments of the fusion call, unpacked
CallSources == Get(args.raw_data, "sources", EmptyDict)

CallMeasurements == Get(Get(CallSources, "openaq", EmptyDict), "measurements", <<>>)

CallSentinel == Get(CallSources, "sentinel5p", EmptyDict)

\* the ground readings that contribute to a pollutant: those of its
\* parameter with a value
GroundReadings(pollutant) ==
    {i \in 1..Len(CallMeasurements) :
        /\ CallMeasurements[i].parameter = pollutant
        /\ CallMeasurements[i].value # None}

\* whether the satellite contributes a reading to a pollutant
SatelliteReading(pollutant) ==
    /\ pollutant \in {"no2", "so2"}
    /\ SatelliteContributes(CallSentinel, pollutant)

RECURSIVE SumOver(_)
SumOver(readings) ==
    IF readings = {} THEN R(0)
    ELSE LET i == CHOOSE j \in readings : TRUE
         IN  RAdd(CallMeasurements[i].value, SumOver(readings \ {i}))

\* sum(w x v) / sum(w) with w = 0.5 for ground and 0.4 for satellite readings
ClaimedFusedValue(pollutant) ==
    LET g    == GroundReadings(pollutant)
        conv == ToMicrograms(CallSentinel[pollutant]["value"],
                             IF pollutant = "no2" THEN Rat(4601, 100) ELSE Rat(6407, 100))
    IN  IF SatelliteReading(pollutant)
        THEN RDiv(RAdd(RMul(Rat(1, 2), SumOver(g)), RMul(Rat(2, 5), conv)),
                  RAdd(Rat(Cardinality(g), 2), Rat(2, 5)))
        ELSE RDiv(RMul(Rat(1, 2), SumOver(g)), Rat(Cardinality(g), 2))

\* C5: each fused air value is the weighted average of the contributing
\* readings, ground readings weighing 0.5 and the converted satellite reading
\* 0.4; a single reading is returned as it is (a lone ground PM2.5 of 50
\* gives 50).
C5_WeightedAverage ==
    Returned("fuse_data") =>
        /\ \A p \in DOMAIN Of(ret).air :
              /\ Of(ret).air[p].value = ClaimedFusedValue(p)
              /\ (Cardinality(GroundReadings(p)) = 1 /\ ~SatelliteReading(p)) =>
                    \E i \in GroundReadings(p) :
                        Of(ret).air[p].value = CallMeasurements[i].value
        /\ (CallMeasurements = <<Measurement("pm25", R(50))>>) =>
              Of(ret).air["pm25"].value = R(50)

\* Two ground readings and a satellite reading of NO2 fused into one value.
C5_Witness ==
    /\ Returned("fuse_data")
    /\ "no2" \in DOMAIN Of(ret).air
    /\ Cardinality(GroundReadings("no2")) = 2
    /\ SatelliteReading("no2")
    /\ CallSentinel["no2"]["value"] = R(6022)
    /\ \E i, j \in GroundReadings("no2") :
          CallMeasurements[i].value = R(40) /\ CallMeasurements[j].value = R(60)
    /\ Of(ret).air["no2"].value = Rat(1254601, 35000)
    /\ Of(ret).air["no2"].source = "Fused (OpenAQ + Sentinel-5P)"

\* C6: a fused metric is labelled "fused" exactly when both the ground
\* sensor and the satellite contributed a reading for that pollutant, and
\* otherwise carries the name of the one source class that contributed.
C6_ProvenanceLabel ==
    Returned("fuse_data") =>
        \A p \in DOMAIN Of(ret).air :
            Of(ret).air[p].source =
                IF GroundReadings(p) # {} /\ SatelliteReading(p)
                THEN "Fused (OpenAQ + Sentinel-5P)"
                ELSE IF GroundReadings(p) # {} THEN "OpenAQ"
                ELSE "Sentinel-5P"

\* every pollutant a reading of the call or an entry of its result names
CallPollutants ==
    {CallMeasurements[i].parameter : i \in 1..Len(CallMeasurements)}
        \cup (DOMAIN CallSentinel) \cup (DOMAIN Of(ret).air)

\* C15: the air domain of the fused metrics has an entry for a pollutant if
\* and only if at least one reading contributed to it (a ground measurement
\* with a value, or a satellite value that the fusion takes); a pollutant
\* without one is absent, not a zero.
C15_EntryIffReadingContributed ==
    Returned("fuse_data") =>
        \A p \in CallPollutants :
            (p \in DOMAIN Of(ret).air) <=> (GroundReadings(p) # {} \/ SatelliteReading(p))

\* C16: every fused value that fuse_data returns is non-negative, whatever
\* the ground and satellite readings are, negative ones included.
C16_FusedValuesNonNegative ==
    Returned("fuse_data") =>
        \A p \in DOMAIN Of(ret).air : RLe(R(0), Of(ret).air[p].value)

\* the satellite column density of a pollutant, None when there is none
SatelliteValue(pollutant) ==
    IF pollutant \in DOMAIN CallSentinel
    THEN Get(CallSentinel[pollutant], "value", None)
    ELSE None

SatelliteMissingOrNegative(pollutant) ==
    IF SatelliteValue(pollutant) = None THEN TRUE
    ELSE RLt(SatelliteValue(pollutant), R(0))

SatellitePositive(pollutant) ==
    IF SatelliteValue(pollutant) = None THEN FALSE
    ELSE RLt(R(0), SatelliteValue(pollutant))

\* value x 1e6 x molar_mass / Avogadro x 1e12, the powers of ten cancelled:
\* 1e6 x 1e12 / 6.022e23 = 1 / 602200
ClaimedConversion(pollutant) ==
    RDiv(RMul(SatelliteValue(pollutant),
              IF pollutant = "no2" THEN Rat(4601, 100) ELSE Rat(6407, 100)),
         R(602200))

\* the fused entry of a pollutant is what the ground readings alone give
FusedFromGroundOnly(pollutant) ==
    IF GroundReadings(pollutant) = {} THEN pollutant \notin DOMAIN Of(ret).air
    ELSE /\ pollutant \in DOMAIN Of(ret).air
         /\ Of(ret).air[pollutant].value =
                RDiv(SumOver(GroundReadings(pollutant)),
                     R(Cardinality(GroundReadings(pollutant))))

\* the fused entry of a pollutant averages the ground readings (0.5 each)
\* and the converted satellite value (0.4)
FusedWithSatellite(pollutant) ==
    /\ pollutant \in DOMAIN Of(ret).air
    /\ Of(ret).air[pollutant].value =
           RDiv(RAdd(RMul(Rat(1, 2), SumOver(GroundReadings(pollutant))),
                     RMul(Rat(2, 5), ClaimedConversion(pollutant))),
                RAdd(Rat(Cardinality(GroundReadings(pollutant)), 2), Rat(2, 5)))

\* C17: a satellite column density that is negative or missing (None, or no
\* value key, or no entry) contributes nothing to the fused NO2 or SO2 and
\* the fusion does not fail; a valid one is converted by
\* value x 1e6 x molar_mass / Avogadro x 1e12 (46.01 for NO2, 64.07 for SO2)
\* and averaged in.  Stated for negative, missing and positive values.
C17_InvalidSatelliteValueIgnored ==
    (pc = "done" /\ op = "fuse_data") =>
        /\ ~IsRaise(ret)
        /\ \A p \in {"no2", "so2"} :
              /\ SatelliteMissingOrNegative(p) => FusedFromGroundOnly(p)
              /\ SatellitePositive(p) => FusedWithSatellite(p)

----------------------------------------------------------------------------
(* fuse_data calls running concurrently, on either instance.  A call takes *)
(* one step for each of its statements: the air, the water and the land    *)
(* fusion, then the return.                                                *)

\* most calls that run at the same time
MaxCalls == 2

Threads == 1..MaxCalls

\* the raw readings the concurrent calls are given
ConcurrentReadings ==
    {[sources |-> [openaq     |-> [measurements |-> <<Measurement("no2", R(40))>>],
                   sentinel5p |-> [no2 |-> Metric(R(6022))]]],
     [sources |-> [openaq |-> [measurements |-> <<Measurement("pm25", R(50))>>]]],
     EmptyDict}

\* a thread that has not called yet
IdleCall ==
    [name |-> "idle", pc |-> "idle", self |-> "", raw_data |-> EmptyDict,
     air_metrics |-> <<>>, water_metrics |-> <<>>, land_metrics |-> <<>>, ret |-> <<>>]

InitFusionCalls ==
    /\ pc = "idle"
    /\ op = "__init__"
    /\ args = <<>>
    /\ ret = <<>>
    /\ DetectorInit
    /\ ServicesInit
    /\ calls = [t \in Threads |-> IdleCall]

\* a thread calls fuse_data on one of the instances
FuseStart(t) ==
    /\ calls[t].pc \in {"idle", "done"}
    /\ \E i \in Instances, r \in ConcurrentReadings :
          calls' = [calls EXCEPT ![t] =
                       [IdleCall EXCEPT !.name = "fuse_data", !.pc = "air",
                                        !.self = i, !.raw_data = r]]
    /\ UNCHANGED <<pc, op, args, ret, fitted, scaler, forest, lastFit, services>>

\* air_metrics = self._fuse_air_quality(sources)
FuseAir(t) ==
    /\ calls[t].pc = "air"
    /\ LET self    == services[calls[t].self]
           sources == Get(calls[t].raw_data, "sources", EmptyDict)
       IN  /\ calls' = [calls EXCEPT ![t].air_metrics = _fuse_air_quality(self, sources),
                                     ![t].pc = "water"]
           /\ services' = [services EXCEPT ![calls[t].self] = SelfAfterFusion(self)]
    /\ UNCHANGED <<pc, op, args, ret, fitted, scaler, forest, lastFit>>

\* water_metrics = self._fuse_water_quality(sources)
FuseWater(t) ==
    /\ calls[t].pc = "water"
    /\ LET self    == services[calls[t].self]
           sources == Get(calls[t].raw_data, "sources", EmptyDict)
       IN  calls' = [calls EXCEPT ![t].water_metrics = _fuse_water_quality(self, sources),
                                  ![t].pc = "land"]
    /\ UNCHANGED <<pc, op, args, ret, fitted, scaler, forest, lastFit, services>>

\* land_metrics = self._fuse_land_metrics(sources)
FuseLand(t) ==
    /\ calls[t].pc = "land"
    /\ LET self    == services[calls[t].self]
           sources == Get(calls[t].raw_data, "sources", EmptyDict)
       IN  calls' = [calls EXCEPT ![t].land_metrics = _fuse_land_metrics(self, sources),
                                  ![t].pc = "return"]
    /\ UNCHANGED <<pc, op, args, ret, fitted, scaler, forest, lastFit, services>>

\* return {"air": air_metrics, "water": water_metrics, "land": land_metrics}
FuseReturn(t) ==
    /\ calls[t].pc = "return"
    /\ calls' = [calls EXCEPT ![t].ret = Dict([air   |-> calls[t].air_metrics,
                                               water |-> calls[t].water_metrics,
                                               land  |-> calls[t].land_metrics]),
                              ![t].pc = "done"]
    /\ UNCHANGED <<pc, op, args, ret, fitted, scaler, forest, lastFit, services>>

NextFusionCalls ==
    \E t \in Threads :
        FuseStart(t) \/ FuseAir(t) \/ FuseWater(t) \/ FuseLand(t) \/ FuseReturn(t)

SpecFusionCalls == InitFusionCalls /\ [][NextFusionCalls]_vars

\* two calls that have returned were given identical raw readings
ReturnedOnSameReadings(t, u) ==
    /\ calls[t].pc = "done"
    /\ calls[u].pc = "done"
    /\ calls[t].raw_data = calls[u].raw_data

\* calls given identical raw readings have returned identical fused metrics
SameReadingsSameMetrics ==
    \A t, u \in Threads : ReturnedOnSameReadings(t, u) => calls[t].ret = calls[u].ret

\* no step changes the weight table or any other attribute of an instance
ServicesNeverChange == services' = services

\* C18: fuse_data is a pure function of its raw readings: two calls with
\* identical raw readings, on the same or on different instances and however
\* they interleave with other calls, return identical fused metrics, and no
\* call changes the weight table or anything else a later call reads.
C18_FusionIsPure ==
    /\ [](SameReadingsSameMetrics)
    /\ [][ServicesNeverChange]_vars

\* Two calls on different instances, given the same ground and satellite
\* NO2 readings, have both returned the same fused value.
C18_Witness ==
    /\ ReturnedOnSameReadings(1, 2)
    /\ calls[1].self # calls[2].self
    /\ "sources" \in DOMAIN calls[1].raw_data
    /\ "no2" \in DOMAIN Of(calls[1].ret).air
    /\ Of(calls[1].ret).air["no2"].value = Of(calls[2].ret).air["no2"].value
    /\ Of(calls[1].ret).air["no2"].source = "Fused (OpenAQ + Sentinel-5P)"

----------------------------------------------------------------------------
(* The AnomalyDetector calls, on one detector, in any order.               *)

\* most rows of a training frame
MaxSamples == 11

\* the columns a frame or a sample may have ("co" is not a feature column)
InputColumns == {"pm25", "timestamp", "co"}

\* The forests that a fit may grow, by what they answer: a score in [-1, 0)
\* and a decision, -1 for an outlier.
Forests ==
    {[score |-> Rat(-7, 10), decision |-> -1], [score |-> Rat(-4, 10), decision |-> 1]}

Self == [fitted |-> fitted, scaler |-> scaler, model |-> forest]

InitDetector ==
    /\ pc = "idle"
    /\ op = "__init__"
    /\ args = <<>>
    /\ ret = <<>>
    /\ DetectorInit
    /\ ServicesInit
    /\ NoCalls

Fit ==
    \E rows \in 0..MaxSamples, columns \in SUBSET InputColumns, trees \in Forests :
        LET after == fit(Self, rows, columns, trees)
        IN  /\ pc' = "done"
            /\ op' = "fit"
            /\ args' = [rows |-> rows, columns |-> columns]
            /\ ret' = after.ret
            /\ fitted' = after.fitted
            /\ scaler' = after.scaler
            /\ forest' = after.model
            /\ lastFit' = IF IsRaise(after.ret) THEN lastFit ELSE rows
            /\ UNCHANGED <<services, calls>>

Predict ==
    \E keys \in SUBSET InputColumns :
        LET current_data == [k \in keys |-> R(1)]
            after        == SelfAfterPredict(Self, current_data)
        IN  /\ pc' = "done"
            /\ op' = "predict"
            /\ args' = [current_data |-> current_data]
            /\ ret' = predict(Self, current_data)
            /\ fitted' = after.fitted
            /\ scaler' = after.scaler
            /\ forest' = after.model
            /\ UNCHANGED <<lastFit, services, calls>>

NextDetector == Fit \/ Predict

SpecDetector == InitDetector /\ [][NextDetector]_vars

----------------------------------------------------------------------------
(* Properties of the AnomalyDetector.                                      *)

\* Fitted exactly when the most recent completed fit had at least 10 samples
\* (Untrained while no fit has completed).
FittedIffLastFitEnough == fitted <=> lastFit >= 10

\* A fit with fewer than 10 samples returns without raising and leaves the
\* detector Untrained, whatever it was.
ShortFitUntrains ==
    (op' = "fit" /\ args'.rows < 10) => (~fitted' /\ ret' = None)

\* Only fit changes the fitted flag.
OnlyFitChangesFitted == (fitted' # fitted) => op' = "fit"

\* C7: the detector starts Untrained; after completed fit calls it is Fitted
\* exactly when the most recent one was given at least 10 samples; a shorter
\* fit returns it to Untrained without raising; nothing but fit changes the
\* flag.
C7_DetectorStateMachine ==
    /\ ~fitted
    /\ [](FittedIffLastFitEnough)
    /\ [][ShortFitUntrains /\ OnlyFitChangesFitted]_vars

\* A Fitted detector that a fit with 9 samples has just returned to Untrained.
C7_Witness ==
    /\ pc = "done" /\ op = "fit" /\ args.rows = 9
    /\ ~fitted /\ scaler # <<>> /\ ret = None

\* the indicator field of a prediction
HasNote(result) == "note" \in DOMAIN Of(result)

Neutral(result) ==
    /\ Of(result).is_anomaly = FALSE
    /\ Of(result).anomaly_score = R(0)
    /\ Of(result).confidence = R(0)

\* the features a sample offers: its pollutant columns and the two derived
\* from its timestamp
UsableFeatures(sample) ==
    {k \in DOMAIN sample : k \in {"pm25", "pm10", "no2", "so2", "o3", "timestamp"}}

\* C8: a prediction carries the indicator exactly when the detector is
\* Untrained or the sample has no usable feature, and then it is the neutral
\* result; a prediction of a Fitted detector from a usable sample carries
\* none.
C8_NeutralResultIsFlagged ==
    (pc = "done" /\ op = "predict" /\ ~IsRaise(ret)) =>
        /\ HasNote(ret) <=> (~fitted \/ UsableFeatures(args.current_data) = {})
        /\ HasNote(ret) => Neutral(ret)

\* A Fitted detector given a sample without any feature column.
C8_Witness ==
    /\ pc = "done" /\ op = "predict" /\ fitted
    /\ DOMAIN args.current_data = {"co"}
    /\ HasNote(ret) /\ Neutral(ret)

\* a predict call leaves the fitted flag, the scaler and the model as they were
PredictLeavesDetector ==
    op' = "predict" => (fitted' = fitted /\ scaler' = scaler /\ forest' = forest)

\* a predict call that follows a predict call on the same sample returns the
\* same result
RepeatedPredictSameResult ==
    (pc = "done" /\ op = "predict" /\ op' = "predict" /\ args' = args) => ret' = ret

\* C20: predict is a pure read of the detector: for any sample, Untrained or
\* Fitted, it leaves the fitted flag, the scaler and the model unchanged, so
\* two consecutive predict calls on the same sample return the same result.
C20_PredictIsPureRead ==
    [][PredictLeavesDetector /\ RepeatedPredictSameResult]_vars

\* A Fitted detector has answered for a usable sample and still holds the
\* scaler and the forest of its training.
C20_Witness ==
    /\ pc = "done" /\ op = "predict" /\ fitted
    /\ ~IsRaise(ret)
    /\ ~HasNote(ret)
    /\ scaler.rows = MinSamples
    /\ forest.rows = MinSamples
    /\ Of(ret).anomaly_score = forest.trees.score

\* the fields of a prediction of the forest
PredictionFields == {"anomaly_score", "is_anomaly", "confidence", "threshold"}

\* a predict call on a Fitted detector with a sample that has some, and only,
\* columns of the training frame
PredictOnPartialSample ==
    /\ pc = "done" /\ op = "predict" /\ fitted
    /\ DOMAIN args.current_data # {}
    /\ DOMAIN args.current_data \subseteq scaler.columns

\* C21: predict on a Fitted detector never fails on partial data: for a
\* sample that has only some of the columns of the training frame (fewer
\* pollutants, or no timestamp), it returns a complete result and does not
\* raise.
C21_PredictNeverRaisesOnPartialData ==
    PredictOnPartialSample =>
        /\ ~IsRaise(ret)
        /\ PredictionFields \subseteq DOMAIN Of(ret) \/ HasNote(ret)

----------------------------------------------------------------------------
(* fit and predict calls running concurrently on the one detector.  The    *)
(* class holds no lock, so a call takes one step for each statement that   *)
(* reads or writes the detector, and the steps of different threads        *)
(* interleave freely.                                                      *)

\* The training frames given to the concurrent fits: a short one and two
\* that are long enough, each with the forest that grows on it.
ConcurrentTrainings ==
    {[rows |-> MinSamples - 1, columns |-> {"pm25"},
      trees |-> [score |-> Rat(-7, 10), decision |-> -1]],
     [rows |-> MinSamples, columns |-> {"pm25"},
      trees |-> [score |-> Rat(-7, 10), decision |-> -1]],
     [rows |-> MinSamples + 1, columns |-> {"pm25"},
      trees |-> [score |-> Rat(-4, 10), decision |-> 1]]}

\* the samples given to the concurrent predicts
ConcurrentSamples == {[k \in {"pm25"} |-> R(1)], [k \in {"co"} |-> R(1)]}

\* A thread that has not called yet.  scaled_by, scored_by and decided_by
\* record the scaler and the model that the three library calls of predict
\* have read.
IdleDetectorCall ==
    [name |-> "idle", pc |-> "idle", historical_data |-> <<>>,
     current_data |-> EmptyDict, scaled_by |-> <<>>, scored_by |-> <<>>,
     decided_by |-> <<>>, anomaly_score |-> <<>>, ret |-> <<>>]

InitDetectorCalls ==
    /\ pc = "idle"
    /\ op = "__init__"
    /\ args = <<>>
    /\ ret = <<>>
    /\ DetectorInit
    /\ ServicesInit
    /\ calls = [t \in Threads |-> IdleDetectorCall]

\* a thread calls fit
FitStart(t) ==
    /\ calls[t].pc \in {"idle", "done"}
    /\ \E training \in ConcurrentTrainings :
          calls' = [calls EXCEPT ![t] =
                       [IdleDetectorCall EXCEPT !.name = "fit", !.pc = "fit_check",
                                                !.historical_data = training]]
    /\ UNCHANGED <<pc, op, args, ret, fitted, scaler, forest, lastFit, services>>

\* if len(historical_data) < 10: self.fitted = False; return
FitCheck(t) ==
    /\ calls[t].pc = "fit_check"
    /\ IF calls[t].historical_data.rows < MinSamples
       THEN /\ fitted' = FALSE
            /\ calls' = [calls EXCEPT ![t].pc = "done", ![t].ret = None]
       ELSE /\ fitted' = fitted
            /\ calls' = [calls EXCEPT ![t].pc = "fit_scale"]
    /\ UNCHANGED <<pc, op, args, ret, scaler, forest, lastFit, services>>

\* features_scaled = self.scaler.fit_transform(features)
FitScale(t) ==
    /\ calls[t].pc = "fit_scale"
    /\ LET training == calls[t].historical_data
       IN  IF NFeatures(training.columns) = 0
           THEN /\ scaler' = scaler
                /\ calls' = [calls EXCEPT ![t].pc = "done",
                                          ![t].ret = Raise("ValueError")]
           ELSE /\ scaler' = [rows |-> training.rows, columns |-> training.columns]
                /\ calls' = [calls EXCEPT ![t].pc = "fit_model"]
    /\ UNCHANGED <<pc, op, args, ret, fitted, forest, lastFit, services>>

\* self.model.fit(features_scaled)
FitModel(t) ==
    /\ calls[t].pc = "fit_model"
    /\ forest' = calls[t].historical_data
    /\ calls' = [calls EXCEPT ![t].pc = "fit_flag"]
    /\ UNCHANGED <<pc, op, args, ret, fitted, scaler, lastFit, services>>

\* self.fitted = True
FitFlag(t) ==
    /\ calls[t].pc = "fit_flag"
    /\ fitted' = TRUE
    /\ calls' = [calls EXCEPT ![t].pc = "done", ![t].ret = None]
    /\ UNCHANGED <<pc, op, args, ret, scaler, forest, lastFit, services>>

\* a thread calls predict
PredictStart(t) ==
    /\ calls[t].pc \in {"idle", "done"}
    /\ \E sample \in ConcurrentSamples :
          calls' = [calls EXCEPT ![t] =
                       [IdleDetectorCall EXCEPT !.name = "predict", !.pc = "predict_check",
                                                !.current_data = sample]]
    /\ UNCHANGED <<pc, op, args, ret, fitted, scaler, forest, lastFit, services>>

\* if not self.fitted: return the neutral result
PredictCheck(t) ==
    /\ calls[t].pc = "predict_check"
    /\ IF ~fitted
       THEN calls' = [calls EXCEPT ![t].pc = "done",
                                   ![t].ret = predict([fitted |-> FALSE],
                                                      calls[t].current_data)]
       ELSE calls' = [calls EXCEPT ![t].pc = "predict_features"]
    /\ UNCHANGED <<pc, op, args, ret, fitted, scaler, forest, lastFit, services>>

\* features = self._extract_features(df); if features.shape[1] == 0: return
PredictFeatures(t) ==
    /\ calls[t].pc = "predict_features"
    /\ IF NFeatures(DOMAIN calls[t].current_data) = 0
       THEN calls' = [calls EXCEPT ![t].pc = "done",
                                   ![t].ret = predict([fitted |-> TRUE],
                                                      calls[t].current_data)]
       ELSE calls' = [calls EXCEPT ![t].pc = "predict_transform"]
    /\ UNCHANGED <<pc, op, args, ret, fitted, scaler, forest, lastFit, services>>

\* features_scaled = self.scaler.transform(features)
PredictTransform(t) ==
    /\ calls[t].pc = "predict_transform"
    /\ IF NFeatures(DOMAIN calls[t].current_data) # NFeatures(scaler.columns)
       THEN calls' = [calls EXCEPT ![t].pc = "done", ![t].ret = Raise("ValueError")]
       ELSE calls' = [calls EXCEPT ![t].pc = "predict_score", ![t].scaled_by = scaler]
    /\ UNCHANGED <<pc, op, args, ret, fitted, scaler, forest, lastFit, services>>

\* anomaly_score = self.model.score_samples(features_scaled)[0]
\* A forest answers as fitted for a sample scaled by the scaler of its own
\* training, and with any score for a sample scaled by another.
PredictScore(t) ==
    /\ calls[t].pc = "predict_score"
    /\ \E answer \in Forests :
          /\ calls[t].scaled_by.rows = forest.rows => answer = forest.trees
          /\ calls' = [calls EXCEPT ![t].pc = "predict_decide",
                                    ![t].scored_by = forest,
                                    ![t].anomaly_score = answer.score]
    /\ UNCHANGED <<pc, op, args, ret, fitted, scaler, forest, lastFit, services>>

\* is_anomaly = self.model.predict(features_scaled)[0] == -1; return {...}
PredictDecide(t) ==
    /\ calls[t].pc = "predict_decide"
    /\ \E answer \in Forests :
          /\ calls[t].scaled_by.rows = forest.rows => answer = forest.trees
          /\ calls' = [calls EXCEPT ![t].pc = "done",
                                    ![t].decided_by = forest,
                                    ![t].ret = Prediction(calls[t].anomaly_score,
                                                          answer.decision)]
    /\ UNCHANGED <<pc, op, args, ret, fitted, scaler, forest, lastFit, services>>

NextDetectorCalls ==
    \E t \in Threads :
        \/ FitStart(t) \/ FitCheck(t) \/ FitScale(t) \/ FitModel(t) \/ FitFlag(t)
        \/ PredictStart(t) \/ PredictCheck(t) \/ PredictFeatures(t)
        \/ PredictTransform(t) \/ PredictScore(t) \/ PredictDecide(t)

SpecDetectorCalls == InitDetectorCalls /\ [][NextDetectorCalls]_vars

\* a predict call has returned a prediction of the forest
Predicted(t) ==
    /\ calls[t].name = "predict"
    /\ calls[t].pc = "done"
    /\ ~IsRaise(calls[t].ret)
    /\ ~HasNote(calls[t].ret)

\* C19: fit is exclusive with respect to predict on the same detector: in
\* every interleaving of fit with concurrent predict calls, the scaler and
\* the model that a predict has read are those of one and the same training,
\* never the scaler of a new training with the model of the previous one.
C19_PredictSeesWholeModel ==
    \A t \in Threads :
        Predicted(t) =>
            /\ calls[t].scaled_by.rows = calls[t].scored_by.rows
            /\ calls[t].scored_by = calls[t].decided_by

----------------------------------------------------------------------------
(* DataIngestionService.fetch_all_sources.  Calling a client method makes  *)
(* a coroutine object, which does not run; the coroutine runs when it is   *)
(* awaited, and the await returns when it has finished.                    *)

\* the tasks list: the enabled sources in the order of the three ifs
TaskNames(include) ==
    SelectSeq(<<"openaq", "sentinel5p", "weather">>,
              LAMBDA n : \/ n = "openaq" /\ include.ground
                         \/ n = "sentinel5p" /\ include.satellite
                         \/ n = "weather" /\ include.weather)

\* the detection points the ingestion is asked for
IngestionPoints == {[lat |-> Rat(1297, 100), lng |-> Rat(7759, 100)],
                    [lat |-> R(0), lng |-> R(0)]}

\* the source that the for loop is at: the first one without a result
Awaited(fetch) == fetch.tasks[Cardinality(DOMAIN fetch.results) + 1]

LoopDone(fetch) == Cardinality(DOMAIN fetch.results) = Len(fetch.tasks)

InitIngestion ==
    /\ pc = "call"
    /\ op = "fetch_all_sources"
    /\ ret = <<>>
    /\ DetectorInit
    /\ ServicesInit
    /\ calls = <<>>
    /\ \E point \in IngestionPoints, g \in BOOLEAN, sat \in BOOLEAN, w \in BOOLEAN :
          args = [lat |-> point.lat, lng |-> point.lng,
                  include |-> [ground |-> g, satellite |-> sat, weather |-> w]]

\* tasks = []; the three ifs append (source_name, coroutine)
CreateTasks ==
    /\ pc = "call"
    /\ pc' = "loop"
    /\ LET tasks == TaskNames(args.include)
       IN  calls' = [tasks    |-> tasks,
                     coro     |-> [n \in {tasks[i] : i \in 1..Len(tasks)} |-> "created"],
                     results  |-> EmptyDict]
    /\ UNCHANGED <<op, args, ret, fitted, scaler, forest, lastFit, services>>

\* await coro: the coroutine of the source the loop is at starts to run
AwaitStart ==
    /\ pc = "loop"
    /\ ~LoopDone(calls)
    /\ calls.coro[Awaited(calls)] = "created"
    /\ calls' = [calls EXCEPT !.coro[Awaited(calls)] = "in flight"]
    /\ UNCHANGED <<pc, op, args, ret, fitted, scaler, forest, lastFit, services>>

\* The awaited coroutine finishes: results[source_name] is what it returned,
\* or the error entry of the except clause when it raised.
AwaitFinish ==
    /\ pc = "loop"
    /\ ~LoopDone(calls)
    /\ calls.coro[Awaited(calls)] = "in flight"
    /\ \E outcome \in SourceResults(Awaited(calls)) :
          calls' = [calls EXCEPT
                       !.coro[Awaited(calls)] = "finished",
                       !.results = [n \in DOMAIN calls.results \cup {Awaited(calls)} |->
                                       IF n = Awaited(calls) THEN outcome
                                       ELSE calls.results[n]]]
    /\ UNCHANGED <<pc, op, args, ret, fitted, scaler, forest, lastFit, services>>

\* return {"timestamp": ..., "location": ..., "sources": results}
FetchReturn ==
    /\ pc = "loop"
    /\ LoopDone(calls)
    /\ pc' = "done"
    /\ ret' = Dict([timestamp |-> [parses |-> TRUE, hour |-> 0],
                    location  |-> [lat |-> args.lat, lng |-> args.lng],
                    sources   |-> calls.results])
    /\ UNCHANGED <<op, args, fitted, scaler, forest, lastFit, services, calls>>

NextIngestion == CreateTasks \/ AwaitStart \/ AwaitFinish \/ FetchReturn

SpecIngestion == InitIngestion /\ [][NextIngestion]_vars

\* The event loop keeps running the call: a step that can be taken is taken.
FairSpecIngestion == SpecIngestion /\ WF_vars(NextIngestion)

EnabledSources == {n \in SourceNames : \E i \in 1..Len(TaskNames(args.include)) :
                                          TaskNames(args.include)[i] = n}

InFlight == IF pc = "loop" THEN {n \in DOMAIN calls.coro : calls.coro[n] = "in flight"}
            ELSE {}

\* the requests to two of the enabled sources are in flight at the same time
TwoInFlight == Cardinality(InFlight) >= 2

\* the result has one entry for each enabled source and for no other, and the
\* entry of a source that failed is an error entry
OneEntryPerEnabledSource ==
    pc = "done" =>
        /\ ~IsRaise(ret)
        /\ DOMAIN Of(ret).sources = EnabledSources
        /\ \A n \in EnabledSources : Of(ret).sources[n] \in SourceResults(n)

\* C24: fetch_all_sources fetches the enabled sources concurrently: when two
\* or more sources are enabled, requests to two of them are in flight at the
\* same time (a later fetch starts before an earlier one has completed); a
\* failed source is recorded as an error entry, and the result holds exactly
\* one entry for each enabled source.
C24_ConcurrentFetch ==
    /\ Cardinality(EnabledSources) >= 2 => <>TwoInFlight
    /\ []OneEntryPerEnabledSource

\* what the loop does instead: one request at a time
AtMostOneInFlight == Cardinality(InFlight) <= 1

----------------------------------------------------------------------------
(* The scoring step of the two routes: the raw data is fused and the fused *)
(* metrics are scored without a historical trend, with the data quality    *)
(* assessed from the same raw data.                                        *)

\* location.py: calculate_risk_score(metrics=fused_metrics,
\* historical_trend=None, data_quality=_assess_data_quality(raw_data));
\* analysis.py leaves historical_trend at its default, None.
ScoreFused(self, raw_data, utcnow) ==
    calculate_risk_score(fuse_data(self, raw_data), None,
                         _assess_data_quality(raw_data, utcnow))

\* the ground-sensor entries of the raw data: those of the fusion, a reading
\* far above its threshold, and the error dict of the client
ScoredOpenAQOptions ==
    OpenAQOptions \cup
    {<<[source |-> "OpenAQ", measurements |-> <<Measurement("pm25", R(500))>>]>>,
     <<[source |-> "OpenAQ", error |-> "HTTPError", measurements |-> <<>>]>>}

ScoredSentinelOptions ==
    {<<>>,
     <<[source |-> "Sentinel-5P", error |-> "Earth Engine not initialized",
        data |-> EmptyDict]>>,
     <<[source |-> "Sentinel-5P TROPOMI", no2 |-> Metric(R(6022)),
        so2 |-> Metric(None)]>>,
     <<[source |-> "Sentinel-5P TROPOMI", no2 |-> Metric(R(-6022)),
        so2 |-> Metric(None)]>>}

ScoredWeatherOptions == {<<>>, <<ExceptionEntry("weather")>>}

InitRouteScore ==
    /\ pc = "call"
    /\ op = "score_fused"
    /\ ret = <<>>
    /\ DetectorInit
    /\ ServicesInit
    /\ NoCalls
    /\ \E route \in Instances, o \in ScoredOpenAQOptions, sat \in ScoredSentinelOptions,
          w \in ScoredWeatherOptions, utcnow \in {0, 72} :
          args = [route    |-> route,
                  raw_data |-> [sources   |-> Present([openaq |-> o, sentinel5p |-> sat,
                                                       weather |-> w], SourceNames),
                                timestamp |-> [parses |-> TRUE, hour |-> 0]],
                  utcnow   |-> utcnow]

ScoreFusedCall ==
    /\ op = "score_fused"
    /\ Return(ScoreFused(services[args.route], args.raw_data, args.utcnow))
    /\ UNCHANGED <<fitted, scaler, forest, lastFit, services, calls>>

NextRouteScore == ScoreFusedCall

SpecRouteScore == InitRouteScore /\ [][NextRouteScore]_vars

\* C27: every bundle that fuse_data produces, scored without a historical
\* trend as both routes do, gets a risk_score of at least 22.5 and at most 80:
\* the placeholder water score of 75 makes exposure_score at least 12.5 and
\* the missing history makes duration_score 50, whatever the air readings and
\* the data quality.
C27_FusedRiskBetween ==
    (pc = "done" /\ op = "score_fused") =>
        /\ ~IsRaise(ret)
        /\ RLe(Rat(25, 2), Of(ret).exposure_score)
        /\ Of(ret).duration_score = R(50)
        /\ RLe(Rat(45, 2), Of(ret).risk_score)
        /\ RLe(Of(ret).risk_score, R(80))

\* The lowest score: no air reading at all, from fresh and complete data.
C27_Witness ==
    /\ pc = "done" /\ op = "score_fused"
    /\ "openaq" \in DOMAIN args.raw_data.sources
    /\ args.raw_data.sources["openaq"].measurements = <<>>
    /\ Of(ret).exposure_score = Rat(25, 2)
    /\ Of(ret).uncertainty_penalty = R(0)
    /\ Of(ret).risk_score = Rat(45, 2)

\* A high score: a reading above twice its threshold, old data, and two of
\* three sources failed.
C27_WitnessHigh ==
    /\ pc = "done" /\ op = "score_fused"
    /\ Of(ret).exposure_score = R(100)
    /\ Of(ret).uncertainty_penalty = R(40)
    /\ Of(ret).risk_score = R(79)

----------------------------------------------------------------------------
(* The running service: the location and the analysis route, whose         *)
(* handlers share the module-level detector, scorer and fusion services.   *)
(* A handler is suspended once, while it awaits the ingestion; from the    *)
(* arrival of the raw data to its response it runs without yielding.  The  *)
(* forecast and search routes import none of the services.                 *)

\* f"{x:.4f}": the closest multiple of 1/10000, a tie going to the even one
Round4(x) ==
    LET n   == x[1] * 10000
        d   == x[2]
        fl  == n \div d
        rem == n - fl * d
        up  == \/ 2 * rem > d
               \/ 2 * rem = d /\ fl % 2 = 1
    IN  Rat(IF up THEN fl + 1 ELSE fl, 10000)

\* What the reverse geocoder answers: <<>> when the package is missing, the
\* search raises or finds nothing, else the first result.
GeocoderResults ==
    {<<>>, <<[name |-> "Bengaluru", admin1 |-> "Karnataka", cc |-> "IN"]>>,
     <<[name |-> "", admin1 |-> "", cc |-> ""]>>}

\* _get_location_name: the non-empty parts joined, or the coordinates
_get_location_name(lat, lng, result) ==
    LET coordinates == [text |-> "Location", lat |-> Round4(lat), lng |-> Round4(lng)]
    IN  IF result = <<>> THEN coordinates
        ELSE LET location == result[1]
                 parts    == SelectSeq(<<"name", "admin1", "cc">>,
                                       LAMBDA k : Get(location, k, "") # "")
             IN  IF parts # <<>>
                 THEN [text |-> "joined", parts |-> [i \in 1..Len(parts) |-> location[parts[i]]]]
                 ELSE coordinates

\* _detect_plumes
_detect_plumes(metrics) ==
    LET air == Get(metrics, "air", EmptyDict)
    IN  IF /\ "so2" \in DOMAIN air
           /\ Truthy(Get(air["so2"], "value", None))
           /\ RLt(R(50), air["so2"].value)
        THEN <<[detected |-> TRUE, pollutant |-> "SO2", intensity |-> air["so2"].value,
                source_estimate |-> None]>>
        ELSE <<[detected |-> FALSE]>>

\* _extract_timestamps; now is the clock when it runs
_extract_timestamps(raw_data, now) ==
    LET sources == Get(raw_data, "sources", EmptyDict)
        has(n)  == n \in DOMAIN sources /\ "timestamp" \in DOMAIN sources[n]
    IN  [air_quality   |-> IF has("openaq") THEN sources["openaq"].timestamp
                           ELSE IF has("sentinel5p") THEN sources["sentinel5p"].timestamp
                           ELSE now,
         water_quality |-> now,
         land          |-> now,
         meteorology   |-> now]

\* _extract_sources (of location.py)
_extract_sources(raw_data) ==
    LET sources == Get(raw_data, "sources", EmptyDict)
        listed(n) ==
            \/ n = "sentinel5p" /\ "sentinel5p" \in DOMAIN sources
            \/ /\ n = "openaq" /\ "openaq" \in DOMAIN sources
               /\ Get(sources["openaq"], "measurements", <<>>) # <<>>
            \/ n = "cpcb" /\ "cpcb" \in DOMAIN sources
        label(n) == CASE n = "sentinel5p" -> "Sentinel-5P TROPOMI"
                      [] n = "openaq"     -> "OpenAQ"
                      [] n = "cpcb"       -> "CPCB (India)"
        names == SelectSeq(<<"sentinel5p", "openaq", "cpcb">>, listed)
    IN  [satellite      |-> IF "sentinel5p" \in DOMAIN sources
                            THEN <<"Sentinel-5P TROPOMI">> ELSE None,
         ground_sensors |-> [i \in 1..Len(names) |-> label(names[i])],
         weather        |-> IF "weather" \in DOMAIN sources THEN <<"ERA5">> ELSE None]

\* SafetyLevel(value): the member with that value, ValueError when none has it
SafetyLevel(value) ==
    IF value \in {"SAFE", "MODERATE", "UNSAFE"} THEN <<value>> ELSE Raise("ValueError")

\* Mutant of LocationResponse: an anomaly makes the verdict UNSAFE.
LocationResponseByAnomaly(lat, lng, location_name, raw_data, fused_metrics, risk_result, anomaly_result, now) ==
    IF IsRaise(risk_result) \/ IsRaise(anomaly_result)
    THEN Raise("HTTPException")
    ELSE IF IsRaise(SafetyLevel(Of(risk_result).verdict)) THEN Raise("HTTPException")
    ELSE Dict(
         [location       |-> [lat |-> lat, lng |-> lng, name |-> location_name],
          timestamp      |-> now,
          data_timestamp |-> _extract_timestamps(raw_data, now),
          verdict        |-> [level      |-> IF Of(anomaly_result).is_anomaly
                                             THEN <<"UNSAFE">>
                                             ELSE SafetyLevel(Of(risk_result).verdict),
                              confidence |-> Of(risk_result).confidence,
                              risk_score |-> Of(risk_result).risk_score],
          metrics        |-> fused_metrics,
          plumes         |-> _detect_plumes(fused_metrics),
          sources        |-> _extract_sources(raw_data)])

\* Steps 6 to 8 of get_location_assessment and its except clause: the
\* response built from what steps 1 to 5 have computed.  anomaly_result is
\* assigned by step 5 and read by no later statement.
LocationResponse(lat, lng, location_name, raw_data, fused_metrics, risk_result, anomaly_result, now) ==
    IF IsRaise(risk_result) \/ IsRaise(anomaly_result)
    THEN Raise("HTTPException")
    ELSE IF IsRaise(SafetyLevel(Of(risk_result).verdict)) THEN Raise("HTTPException")
    ELSE Dict(
         [location       |-> [lat |-> lat, lng |-> lng, name |-> location_name],
          timestamp      |-> now,
          data_timestamp |-> _extract_timestamps(raw_data, now),
          verdict        |-> [level      |-> SafetyLevel(Of(risk_result).verdict),
                              confidence |-> Of(risk_result).confidence,
                              risk_score |-> Of(risk_result).risk_score],
          metrics        |-> fused_metrics,
          plumes         |-> _detect_plumes(fused_metrics),
          sources        |-> _extract_sources(raw_data)])

\* One reason of _generate_human_readable for an air metric: <<>> when the
\* value is missing, zero or within the threshold, else the numbers that the
\* sentence shows, formatted to one decimal.
AirReason(air, pollutant, default_threshold) ==
    IF pollutant \notin DOMAIN air THEN <<>>
    ELSE IF ~Truthy(Get(air[pollutant], "value", None)) THEN <<>>
    ELSE LET value     == air[pollutant].value
             threshold == Get(air[pollutant], "threshold", default_threshold)
         IN  IF threshold = None THEN Raise("TypeError")
             ELSE IF ~RLt(threshold, value) THEN <<>>
             ELSE IF threshold = R(0) THEN Raise("ZeroDivisionError")
             ELSE <<[pollutant  |-> pollutant, value |-> Round1(value),
                     threshold  |-> threshold,
                     exceedance |-> Round1(RDiv(value, threshold))]>>

\* _generate_human_readable
_generate_human_readable(metrics, risk_result) ==
    LET verdict == Get(risk_result, "verdict", "MODERATE")
        air     == Get(metrics, "air", EmptyDict)
        pm25    == AirReason(air, "pm25", R(45))
        no2     == AirReason(air, "no2", R(200))
        so2     == AirReason(air, "so2", R(40))
        water   == Get(metrics, "water", EmptyDict)
        poor    == "quality_score" \in DOMAIN water /\ RLt(water.quality_score, R(70))
        wreason == IF poor THEN <<[water_quality_score |-> water.quality_score]>> ELSE <<>>
        reasons == pm25 \o no2 \o so2 \o wreason
        recommendations ==
            (IF pm25 # <<>>
             THEN {"Avoid outdoor activities, especially during peak hours",
                   "Use air purifiers indoors"}
             ELSE {})
            \cup (IF poor THEN {"Monitor water before consumption"} ELSE {})
    IN  IF IsRaise(pm25) THEN pm25
        ELSE IF IsRaise(no2) THEN no2
        ELSE IF IsRaise(so2) THEN so2
        ELSE IF "quality_score" \in DOMAIN water /\ water.quality_score = None
        THEN Raise("TypeError")
        ELSE Dict(
             [summary |-> IF verdict = "UNSAFE"
                          THEN "This location is UNSAFE to inhabit."
                          ELSE IF verdict = "MODERATE"
                          THEN "This location has MODERATE environmental risks."
                          ELSE "This location appears SAFE, but continue monitoring.",
              reasons |-> IF reasons = <<>>
                          THEN <<[text |-> "Data analysis completed, but no major exceedances detected."]>>
                          ELSE reasons,
              recommendations |->
                          IF recommendations = {}
                          THEN {"Continue monitoring environmental conditions"}
                          ELSE recommendations])

\* get_detailed_analysis, from the arrival of the raw data
AnalysisResponse(self, raw_data, now) ==
    LET fused_metrics  == fuse_data(self, raw_data)
        risk_result    == calculate_risk_score(fused_metrics, None,
                                               _assess_data_quality(raw_data, now.hour))
        human_readable == _generate_human_readable(fused_metrics, Of(risk_result))
        technical      == _generate_technical_breakdown(fused_metrics, raw_data,
                                                        Of(risk_result))
    IN  IF IsRaise(risk_result) THEN Raise("HTTPException")
        ELSE IF IsRaise(human_readable) \/ IsRaise(technical) THEN Raise("HTTPException")
        ELSE Dict([human_readable |-> Of(human_readable),
                   technical      |-> Of(technical),
                   model_info     |->
                       [risk_model_version |-> Get(Of(risk_result), "model_version", "1.0.0"),
                        timestamp          |-> now]])

\* what fetch_all_sources hands to a handler: all three sources attempted
ServiceSources ==
    {[openaq     |-> [source |-> "OpenAQ", timestamp |-> [parses |-> TRUE, hour |-> 0],
                      measurements |-> <<Measurement("pm25", R(50)),
                                         Measurement("so2", R(50))>>,
                      locations_count |-> 1],
      sentinel5p |-> [source |-> "Sentinel-5P TROPOMI",
                      timestamp |-> [parses |-> TRUE, hour |-> 0],
                      no2 |-> Metric(R(6022)), so2 |-> Metric(None), product |-> "OFFL L3"],
      weather    |-> [source |-> "ERA5", wind_u |-> None, wind_v |-> None,
                      timestamp |-> [parses |-> TRUE, hour |-> 0]]],
     [openaq     |-> [source |-> "OpenAQ", timestamp |-> [parses |-> TRUE, hour |-> 0],
                      measurements |-> <<Measurement("so2", R(60))>>, locations_count |-> 1],
      sentinel5p |-> [source |-> "Sentinel-5P", error |-> "Earth Engine not initialized",
                      data |-> EmptyDict],
      weather    |-> [source |-> "ERA5", wind_u |-> None, wind_v |-> None,
                      timestamp |-> [parses |-> TRUE, hour |-> 0]]],
     [openaq     |-> [source |-> "OpenAQ", error |-> "HTTPError", measurements |-> <<>>],
      sentinel5p |-> [source |-> "Sentinel-5P", error |-> "Earth Engine not initialized",
                      data |-> EmptyDict],
      weather    |-> ExceptionEntry("weather")]}

\* a thread that serves no request
IdleRequest ==
    [name |-> "idle", pc |-> "idle", lat |-> R(0), lng |-> R(0), location_name |-> <<>>,
     raw_data |-> EmptyDict, fused_metrics |-> <<>>, risk_result |-> <<>>,
     anomaly_result |-> <<>>, now |-> <<>>, response |-> <<>>]

InitService ==
    /\ pc = "idle"
    /\ op = "__init__"
    /\ args = <<>>
    /\ ret = <<>>
    /\ DetectorInit
    /\ ServicesInit
    /\ calls = [t \in Threads |-> IdleRequest]

\* get_location_assessment up to "await data_ingestion.fetch_all_sources"
LocationStart(t) ==
    /\ calls[t].pc \in {"idle", "done"}
    /\ \E point \in IngestionPoints, result \in GeocoderResults :
          calls' = [calls EXCEPT ![t] =
                       [IdleRequest EXCEPT
                           !.name = "location", !.pc = "fetching",
                           !.lat = point.lat, !.lng = point.lng,
                           !.location_name =
                               _get_location_name(point.lat, point.lng, result)]]
    /\ UNCHANGED <<pc, op, args, ret, fitted, scaler, forest, lastFit, services>>

\* get_location_assessment from the arrival of the raw data to the response
LocationFinish(t) ==
    /\ calls[t].name = "location"
    /\ calls[t].pc = "fetching"
    /\ \E sources \in ServiceSources :
          LET now            == [parses |-> TRUE, hour |-> 0]
              raw_data       == [timestamp |-> now,
                                 location  |-> [lat |-> calls[t].lat, lng |-> calls[t].lng],
                                 sources   |-> sources]
              fused_metrics  == fuse_data(services["location"], raw_data)
              risk_result    == calculate_risk_score(fused_metrics, None,
                                    _assess_data_quality(raw_data, now.hour))
              anomaly_result == predict(Self, Get(fused_metrics, "air", EmptyDict))
              after          == SelfAfterPredict(Self, Get(fused_metrics, "air", EmptyDict))
          IN  /\ calls' = [calls EXCEPT
                              ![t].pc = "done",
                              ![t].raw_data = raw_data,
                              ![t].fused_metrics = fused_metrics,
                              ![t].risk_result = risk_result,
                              ![t].anomaly_result = anomaly_result,
                              ![t].now = now,
                              ![t].response =
                                  LocationResponse(calls[t].lat, calls[t].lng,
                                                   calls[t].location_name, raw_data,
                                                   fused_metrics, risk_result,
                                                   anomaly_result, now)]
              /\ fitted' = after.fitted
              /\ scaler' = after.scaler
              /\ forest' = after.model
              /\ services' = [services EXCEPT
                                 !["location"] = SelfAfterFusion(services["location"])]
    /\ UNCHANGED <<pc, op, args, ret, lastFit>>

\* get_detailed_analysis up to "await data_ingestion.fetch_all_sources"
AnalysisStart(t) ==
    /\ calls[t].pc \in {"idle", "done"}
    /\ \E point \in IngestionPoints :
          calls' = [calls EXCEPT ![t] =
                       [IdleRequest EXCEPT !.name = "analysis", !.pc = "fetching",
                                           !.lat = point.lat, !.lng = point.lng]]
    /\ UNCHANGED <<pc, op, args, ret, fitted, scaler, forest, lastFit, services>>

\* get_detailed_analysis from the arrival of the raw data to the response
AnalysisFinish(t) ==
    /\ calls[t].name = "analysis"
    /\ calls[t].pc = "fetching"
    /\ \E sources \in ServiceSources :
          LET now      == [parses |-> TRUE, hour |-> 0]
              raw_data == [timestamp |-> now,
                           location  |-> [lat |-> calls[t].lat, lng |-> calls[t].lng],
                           sources   |-> sources]
          IN  /\ calls' = [calls EXCEPT
                              ![t].pc = "done",
                              ![t].raw_data = raw_data,
                              ![t].now = now,
                              ![t].response =
                                  AnalysisResponse(services["analysis"], raw_data, now)]
              /\ services' = [services EXCEPT
                                 !["analysis"] = SelfAfterFusion(services["analysis"])]
    /\ UNCHANGED <<pc, op, args, ret, fitted, scaler, forest, lastFit>>

NextService ==
    \E t \in Threads :
        \/ LocationStart(t) \/ LocationFinish(t)
        \/ AnalysisStart(t) \/ AnalysisFinish(t)

SpecService == InitService /\ [][NextService]_vars

\* the results that a predict could return to the location route
AnomalyResults ==
    {predict([fitted |-> FALSE], EmptyDict),
     Prediction(Rat(-7, 10), -1),
     Prediction(Rat(-4, 10), 1)}

\* a location request that has been answered
LocationAnswered(t) == calls[t].name = "location" /\ calls[t].pc = "done"

\* The predict of an answered location request returned the neutral result
\* of an Untrained detector.
PredictWasNeutral(t) ==
    /\ ~IsRaise(calls[t].anomaly_result)
    /\ HasNote(calls[t].anomaly_result)
    /\ Of(calls[t].anomaly_result).note
           = "Model not fitted - insufficient historical data"
    /\ Neutral(calls[t].anomaly_result)

\* The response of an answered location request is the one that any other
\* anomaly result would have given.
ResponseIgnoresAnomaly(t) ==
    \A a \in AnomalyResults :
        calls[t].response
            = LocationResponse(calls[t].lat, calls[t].lng, calls[t].location_name,
                               calls[t].raw_data, calls[t].fused_metrics,
                               calls[t].risk_result, a, calls[t].now)

\* C26: in the running service nothing calls fit on the module-level
\* detector: after any sequence of requests it is still Untrained, every
\* predict of the location route returns the neutral "model not fitted"
\* result, and the anomaly result has no influence on the verdict, the
\* risk_score or any other field of the response.
C26_DetectorNeverTrained ==
    /\ ~fitted /\ scaler = <<>> /\ forest = <<>>
    /\ \A t \in Threads :
          LocationAnswered(t) => PredictWasNeutral(t) /\ ResponseIgnoresAnomaly(t)

\* Two location requests answered, one of them with a detected plume and a
\* verdict, both with the neutral anomaly result.
C26_Witness ==
    /\ \A t \in Threads : LocationAnswered(t) /\ ~IsRaise(calls[t].response)
    /\ \E t \in Threads :
          /\ Of(calls[t].response).plumes[1].detected
          /\ Of(calls[t].response).verdict.level = <<"MODERATE">>
          /\ HasNote(calls[t].anomaly_result)
    /\ ~fitted

====
